---- MODULE Spec2Model ----
(***************************************************************************)
(* Model of the discount service: the four discount strategies (brand,     *)
(* category, voucher, bank offer), the DiscountService orchestrator in its *)
(* stacking and best-discount modes, and validate_discount_code.           *)
(*                                                                         *)
(* Money is held in hundredths of a rupee (an Int): Decimal("1000") is     *)
(* 100000.  Percentages are Ints.  An Optional value is a sequence of      *)
(* length 0 (None) or 1.  A Python object that can be aliased (the list of *)
(* cart items) is a record [id, items]: id names the object, items is its  *)
(* content.                                                                *)
(***************************************************************************)
EXTENDS Integers, Sequences, FiniteSets, TLC

VARIABLES cart, call, result, direct

vars == <<cart, call, result, direct>>

(***************************************************************************)
(* Bounds of the model.                                                    *)
(***************************************************************************)
\* longest cart drawn in Init
MaxItems == 2
\* number of direct strategy.calculate calls a caller makes on its own cart
MaxDirectCalls == 2

(***************************************************************************)
(* Optional values and Python truthiness.                                  *)
(***************************************************************************)
None == <<>>

Some(x) == <<x>>

\* bool(x) of an Optional[Decimal]: None and Decimal("0") are falsy
TruthyNum(o) == o # None /\ o[1] # 0

\* bool(x) of an Optional[str]: None and "" are falsy
TruthyStr(o) == o # None /\ o[1] # ""

\* bool(x) of an Optional[Set]: None and set() are falsy
TruthySet(o) == o # None /\ o[1] # {}

Abs(n) == IF n < 0 THEN -n ELSE n

(***************************************************************************)
(* Decimal.quantize(Decimal("0.01")) of the exact quotient n / d, where n  *)
(* and the result are in hundredths.  The decimal module's default context *)
(* rounds half to even, on the magnitude.                                  *)
(***************************************************************************)
Quantize(n, d) ==
    LET a == Abs(n)
        q == a \div d
        r == a % d
        m == IF 2 * r > d \/ (2 * r = d /\ q % 2 = 1) THEN q + 1 ELSE q
    IN  IF n < 0 THEN -m ELSE m

\* amount * percentage / Decimal("100"), quantized to 2 places
PercentOf(amount, percentage) == Quantize(amount * percentage, 100)

(***************************************************************************)
(* models.py                                                               *)
(***************************************************************************)
BrandTier == {"premium", "regular", "budget"}

CustomerTier == {"new", "silver", "gold", "platinum"}

Product(id, brand, brand_tier, category, base_price, current_price) ==
    [id |-> id, brand |-> brand, brand_tier |-> brand_tier,
     category |-> category, base_price |-> base_price,
     current_price |-> current_price]

CartItem(product, quantity, size) ==
    [product |-> product, quantity |-> quantity, size |-> size]

\* CartItem.get_subtotal
get_subtotal(item) == item.product.current_price * item.quantity

PaymentInfo(method, bank_name, card_type) ==
    [method |-> method, bank_name |-> bank_name, card_type |-> card_type]

CustomerProfile(id, tier, total_purchases) ==
    [id |-> id, tier |-> tier, total_purchases |-> total_purchases]

\* One validation error: the f-string's template (kind) and what it
\* interpolates (two strings, two amounts, a set of names).
Reason(kind, a, b, x, y, names) ==
    [kind |-> kind, a |-> a, b |-> b, x |-> x, y |-> y, names |-> names]

\* A piece of literal text in a message
Text(s) == Reason(s, "", "", 0, 0, {})

\* ', '.join(names) of a set of strings: one text per order in which the set
\* can be iterated (the order follows the strings' hashes, which CPython
\* seeds per process), each text given as the sequence of names joined
join_orders(names) ==
    {order \in [1..Cardinality(names) -> names] :
        \A i, j \in 1..Cardinality(names) : order[i] = order[j] => i = j}

RECURSIVE message_texts(_)
\* the strings a message of tokens can be formatted to: every token's set of
\* names is joined in one of its orders
message_texts(message) ==
    IF message = <<>> THEN {<<>>}
    ELSE {<<[kind |-> message[1].kind, a |-> message[1].a, b |-> message[1].b,
             x |-> message[1].x, y |-> message[1].y, names |-> order]>> \o text :
            order \in join_orders(message[1].names),
            text \in message_texts(Tail(message))}

\* ValidationResult(is_valid=True) after add_error for each of errors
ValidationResult(errors) == [is_valid |-> errors = <<>>, errors |-> errors]

RECURSIVE Join(_, _)
\* sep.join(parts): parts is a sequence of token sequences
Join(parts, sep) ==
    IF parts = <<>> THEN <<>>
    ELSE IF Len(parts) = 1 THEN parts[1]
    ELSE parts[1] \o <<sep>> \o Join(Tail(parts), sep)

\* ValidationResult.error_message: "; ".join(errors), "" when there are none
error_message(v) == Join([i \in DOMAIN v.errors |-> <<v.errors[i]>>], Text("; "))

(***************************************************************************)
(* data/discount_config.py                                                 *)
(***************************************************************************)
BRAND_DISCOUNTS == [PUMA |-> 40, NIKE |-> 30, ADIDAS |-> 35]

CATEGORY_DISCOUNTS == [c \in {"T-shirts", "Shoes", "Jeans"} |->
    CASE c = "T-shirts" -> 10 [] c = "Shoes" -> 15 [] c = "Jeans" -> 20]

VoucherConfig(code, pct, min_cart, ex_brands, categories, ex_tiers, min_tier) ==
    [code |-> code, discount_percentage |-> pct,
     min_cart_value |-> min_cart, excluded_brands |-> ex_brands,
     allowed_categories |-> categories,
     excluded_brand_tiers |-> ex_tiers,
     min_customer_tier |-> min_tier]

VOUCHERS == [code \in {"SUPER69", "NEWUSER20", "TSHIRT15", "GOLD50"} |->
    CASE code = "SUPER69" ->
            VoucherConfig("SUPER69", 69, Some(10000), {}, None, {"premium"}, None)
      [] code = "NEWUSER20" ->
            VoucherConfig("NEWUSER20", 20, Some(50000), {}, None, {}, Some("new"))
      [] code = "TSHIRT15" ->
            VoucherConfig("TSHIRT15", 15, None, {}, Some({"T-shirts"}), {}, None)
      [] code = "GOLD50" ->
            VoucherConfig("GOLD50", 50, Some(100000), {"PUMA", "NIKE"}, None, {},
                          Some("gold"))]

BankOfferConfig(bank_name, pct, card_type, min_transaction_value) ==
    [bank_name |-> bank_name, discount_percentage |-> pct,
     card_type |-> card_type, min_transaction_value |-> min_transaction_value]

BANK_OFFERS == [b \in {"ICICI", "HDFC", "SBI"} |->
    CASE b = "ICICI" -> BankOfferConfig("ICICI", 10, None, Some(10000))
      [] b = "HDFC" -> BankOfferConfig("HDFC", 15, Some("CREDIT"), Some(50000))
      [] b = "SBI" -> BankOfferConfig("SBI", 5, None, None)]

(***************************************************************************)
(* data/fake_data.py                                                       *)
(***************************************************************************)
PUMA_TSHIRT == Product("P001", "PUMA", "regular", "T-shirts", 100000, 100000)

NIKE_SHOES == Product("P002", "NIKE", "premium", "Shoes", 500000, 500000)

ADIDAS_JEANS == Product("P003", "ADIDAS", "regular", "Jeans", 250000, 250000)

BUDGET_TSHIRT == Product("P004", "LOCAL_BRAND", "budget", "T-shirts", 50000, 50000)

PREMIUM_JACKET == Product("P005", "GUCCI", "premium", "Jackets", 1500000, 1500000)

NEW_CUSTOMER == CustomerProfile("C001", "new", 0)

SILVER_CUSTOMER == CustomerProfile("C002", "silver", 500000)

GOLD_CUSTOMER == CustomerProfile("C003", "gold", 2500000)

PLATINUM_CUSTOMER == CustomerProfile("C004", "platinum", 10000000)

ICICI_CARD_PAYMENT == PaymentInfo("CARD", Some("ICICI"), Some("DEBIT"))

HDFC_CREDIT_PAYMENT == PaymentInfo("CARD", Some("HDFC"), Some("CREDIT"))

HDFC_DEBIT_PAYMENT == PaymentInfo("CARD", Some("HDFC"), Some("DEBIT"))

SBI_CARD_PAYMENT == PaymentInfo("CARD", Some("SBI"), Some("CREDIT"))

UPI_PAYMENT == PaymentInfo("UPI", None, None)

\* get_multiple_discount_scenario(): one PUMA T-shirt
get_multiple_discount_scenario == <<CartItem(PUMA_TSHIRT, 1, "L")>>

\* get_no_discount_cart(): one premium jacket
get_no_discount_cart == <<CartItem(PREMIUM_JACKET, 1, "M")>>

(***************************************************************************)
(* Sums over a cart.                                                       *)
(***************************************************************************)
RECURSIVE SumSeq(_)
\* sum(...) of a sequence of amounts
SumSeq(s) == IF s = <<>> THEN 0 ELSE s[1] + SumSeq(Tail(s))

\* sum(item.get_subtotal() for item in cart_items)
cart_total(cart_items) ==
    SumSeq([i \in DOMAIN cart_items |-> get_subtotal(cart_items[i])])

\* original_total, were it summed over current_price
original_total_on_current(cart_items) ==
    SumSeq([i \in DOMAIN cart_items |->
              cart_items[i].product.current_price * cart_items[i].quantity])

\* sum(item.product.base_price * item.quantity for item in cart_items)
original_total(cart_items) ==
    SumSeq([i \in DOMAIN cart_items |->
              cart_items[i].product.base_price * cart_items[i].quantity])

(***************************************************************************)
(* strategies/brand.py                                                     *)
(***************************************************************************)
\* brand_item_discount, were it taken on current_price
brand_item_discount_on_current(brand_discounts, item) ==
    IF item.product.brand \in DOMAIN brand_discounts
    THEN PercentOf(item.product.current_price, brand_discounts[item.product.brand])
    ELSE 0

\* the discount of one item: base_price * pct / 100, quantized; 0 when the
\* brand has no configured percentage
brand_item_discount(brand_discounts, item) ==
    IF item.product.brand \in DOMAIN brand_discounts
    THEN PercentOf(item.product.base_price, brand_discounts[item.product.brand])
    ELSE 0

\* brand_item_update, were the discount subtracted from current_price
brand_item_update_compounding(brand_discounts, item) ==
    IF item.product.brand \in DOMAIN brand_discounts
    THEN [item EXCEPT !.product.current_price =
            item.product.current_price - brand_item_discount(brand_discounts, item)]
    ELSE item

\* brand_item_update, were the discount added to base_price
brand_item_update_raising(brand_discounts, item) ==
    IF item.product.brand \in DOMAIN brand_discounts
    THEN [item EXCEPT !.product.current_price =
            item.product.base_price + brand_item_discount(brand_discounts, item)]
    ELSE item

\* the item after the brand rule: current_price = base_price - item_discount
brand_item_update(brand_discounts, item) ==
    IF item.product.brand \in DOMAIN brand_discounts
    THEN [item EXCEPT !.product.current_price =
            item.product.base_price - brand_item_discount(brand_discounts, item)]
    ELSE item

\* BrandDiscountStrategy.calculate: the returned total and the mutated items
Brand_calculate(brand_discounts, cart_items) ==
    [amount |->
        SumSeq([i \in DOMAIN cart_items |->
                  brand_item_discount(brand_discounts, cart_items[i])
                  * cart_items[i].quantity]),
     cart_items |->
        [i \in DOMAIN cart_items |->
            brand_item_update(brand_discounts, cart_items[i])]]

\* BrandDiscountStrategy.validate: ValidationResult(is_valid=True)
Brand_validate(brand_discounts, cart_items) == ValidationResult(<<>>)

(***************************************************************************)
(* strategies/category.py                                                  *)
(***************************************************************************)
\* category_item_discount, were it taken on base_price
category_item_discount_on_base(category_discounts, item) ==
    IF item.product.category \in DOMAIN category_discounts
    THEN PercentOf(item.product.base_price,
                   category_discounts[item.product.category])
    ELSE 0

\* the discount of one item: current_price * pct / 100, quantized
category_item_discount(category_discounts, item) ==
    IF item.product.category \in DOMAIN category_discounts
    THEN PercentOf(item.product.current_price,
                   category_discounts[item.product.category])
    ELSE 0

\* category_item_update, were the discount subtracted from base_price
category_item_update_from_base(category_discounts, item) ==
    IF item.product.category \in DOMAIN category_discounts
    THEN [item EXCEPT !.product.current_price =
            item.product.base_price
            - category_item_discount(category_discounts, item)]
    ELSE item

\* the item after the category rule: current_price lowered by item_discount
category_item_update(category_discounts, item) ==
    IF item.product.category \in DOMAIN category_discounts
    THEN [item EXCEPT !.product.current_price =
            item.product.current_price
            - category_item_discount(category_discounts, item)]
    ELSE item

\* CategoryDiscountStrategy.calculate: the returned total and the mutated items
Category_calculate(category_discounts, cart_items) ==
    [amount |->
        SumSeq([i \in DOMAIN cart_items |->
                  category_item_discount(category_discounts, cart_items[i])
                  * cart_items[i].quantity]),
     cart_items |->
        [i \in DOMAIN cart_items |->
            category_item_update(category_discounts, cart_items[i])]]

(***************************************************************************)
(* strategies/voucher.py                                                   *)
(***************************************************************************)
\* Voucher_calculate, were the minimum cart value consulted
Voucher_calculate_if_min_met(vouchers, cart_items, voucher_code) ==
    IF ~TruthyStr(voucher_code) THEN 0
    ELSE IF voucher_code[1] \notin DOMAIN vouchers THEN 0
    ELSE IF TruthyNum(vouchers[voucher_code[1]].min_cart_value)
            /\ cart_total(cart_items) < vouchers[voucher_code[1]].min_cart_value[1]
    THEN 0
    ELSE PercentOf(cart_total(cart_items),
                   vouchers[voucher_code[1]].discount_percentage)

\* VoucherDiscountStrategy.calculate (reads the cart, mutates nothing)
Voucher_calculate(vouchers, cart_items, voucher_code) ==
    IF ~TruthyStr(voucher_code) THEN 0
    ELSE IF voucher_code[1] \notin DOMAIN vouchers THEN 0
    ELSE PercentOf(cart_total(cart_items),
                   vouchers[voucher_code[1]].discount_percentage)

\* tier_order.index(tier)
tier_index(tier) ==
    CASE tier = "new" -> 0 [] tier = "silver" -> 1
      [] tier = "gold" -> 2 [] tier = "platinum" -> 3

\* check: minimum cart value
voucher_min_cart_errors(voucher, cart_items) ==
    IF TruthyNum(voucher.min_cart_value)
       /\ cart_total(cart_items) < voucher.min_cart_value[1]
    THEN <<Reason("Minimum cart value of Rs{x} not met (current: Rs{y})", "", "",
                  voucher.min_cart_value[1], cart_total(cart_items), {})>>
    ELSE <<>>

\* check: excluded brands (the set is joined in iteration order)
voucher_excluded_brand_errors(voucher, cart_items) ==
    LET cart_brands == {cart_items[i].product.brand : i \in DOMAIN cart_items}
        excluded_in_cart == cart_brands \cap voucher.excluded_brands
    IN  IF voucher.excluded_brands # {} /\ excluded_in_cart # {}
        THEN <<Reason("Voucher not valid for brands: {names}", "", "", 0, 0,
                      excluded_in_cart)>>
        ELSE <<>>

\* check: allowed categories
voucher_category_errors(voucher, cart_items) ==
    IF TruthySet(voucher.allowed_categories)
    THEN LET cart_categories ==
                {cart_items[i].product.category : i \in DOMAIN cart_items}
             invalid_categories == cart_categories \ voucher.allowed_categories[1]
         IN  IF invalid_categories # {}
             THEN <<Reason("Voucher only valid for categories: {names}", "", "",
                           0, 0, voucher.allowed_categories[1])>>
             ELSE <<>>
    ELSE <<>>

\* check: excluded brand tiers
voucher_brand_tier_errors(voucher, cart_items) ==
    LET cart_tiers == {cart_items[i].product.brand_tier : i \in DOMAIN cart_items}
        excluded_tiers_in_cart == cart_tiers \cap voucher.excluded_brand_tiers
    IN  IF voucher.excluded_brand_tiers # {} /\ excluded_tiers_in_cart # {}
        THEN <<Reason("Voucher not valid for {names} brand products", "", "",
                      0, 0, excluded_tiers_in_cart)>>
        ELSE <<>>

\* voucher_customer_tier_errors, were the comparison <= instead of <
voucher_customer_tier_errors_at_rank(voucher, customer) ==
    IF voucher.min_customer_tier # None
       /\ tier_index(customer.tier) <= tier_index(voucher.min_customer_tier[1])
    THEN <<Reason("Voucher requires {a} membership (current: {b})",
                  voucher.min_customer_tier[1], customer.tier, 0, 0, {})>>
    ELSE <<>>

\* check: minimum customer tier (an Enum member is always truthy)
voucher_customer_tier_errors(voucher, customer) ==
    IF voucher.min_customer_tier # None
       /\ tier_index(customer.tier) < tier_index(voucher.min_customer_tier[1])
    THEN <<Reason("Voucher requires {a} membership (current: {b})",
                  voucher.min_customer_tier[1], customer.tier, 0, 0, {})>>
    ELSE <<>>

\* VoucherDiscountStrategy.validate
Voucher_validate(vouchers, cart_items, customer, voucher_code) ==
    IF ~TruthyStr(voucher_code)
    THEN ValidationResult(<<Text("No voucher code provided")>>)
    ELSE IF voucher_code[1] \notin DOMAIN vouchers
    THEN ValidationResult(
            <<Reason("Voucher code '{a}' is invalid", voucher_code[1], "", 0, 0, {})>>)
    ELSE LET voucher == vouchers[voucher_code[1]]
         IN  ValidationResult(
                voucher_min_cart_errors(voucher, cart_items)
                \o voucher_excluded_brand_errors(voucher, cart_items)
                \o voucher_category_errors(voucher, cart_items)
                \o voucher_brand_tier_errors(voucher, cart_items)
                \o voucher_customer_tier_errors(voucher, customer))

(***************************************************************************)
(* strategies/bank.py                                                      *)
(***************************************************************************)
\* bank_offer.card_type and payment_info.card_type != bank_offer.card_type
card_type_mismatch(bank_offer, payment) ==
    TruthyStr(bank_offer.card_type) /\ payment.card_type # bank_offer.card_type

\* Bank_calculate, were the cart total taken on base prices
Bank_calculate_on_base(bank_offers, cart_items, payment_info) ==
    IF payment_info = None \/ ~TruthyStr(payment_info[1].bank_name) THEN 0
    ELSE IF payment_info[1].bank_name[1] \notin DOMAIN bank_offers THEN 0
    ELSE LET bank_offer == bank_offers[payment_info[1].bank_name[1]]
             total == original_total(cart_items)
         IN  IF card_type_mismatch(bank_offer, payment_info[1]) THEN 0
             ELSE IF TruthyNum(bank_offer.min_transaction_value)
                     /\ total < bank_offer.min_transaction_value[1] THEN 0
             ELSE PercentOf(total, bank_offer.discount_percentage)

\* BankOfferStrategy.calculate (reads the cart, mutates nothing)
Bank_calculate(bank_offers, cart_items, payment_info) ==
    IF payment_info = None \/ ~TruthyStr(payment_info[1].bank_name) THEN 0
    ELSE IF payment_info[1].bank_name[1] \notin DOMAIN bank_offers THEN 0
    ELSE LET bank_offer == bank_offers[payment_info[1].bank_name[1]]
             total == cart_total(cart_items)
         IN  IF card_type_mismatch(bank_offer, payment_info[1]) THEN 0
             ELSE IF TruthyNum(bank_offer.min_transaction_value)
                     /\ total < bank_offer.min_transaction_value[1] THEN 0
             ELSE PercentOf(total, bank_offer.discount_percentage)

\* check: required card type
bank_card_type_errors(bank_offer, payment) ==
    IF card_type_mismatch(bank_offer, payment)
    THEN <<Reason("{a} offer requires {b} card (provided: {names})",
                  payment.bank_name[1], bank_offer.card_type[1], 0, 0,
                  {payment.card_type[i] : i \in DOMAIN payment.card_type})>>
    ELSE <<>>

\* check: minimum transaction value
bank_min_transaction_errors(bank_offer, cart_items) ==
    IF TruthyNum(bank_offer.min_transaction_value)
       /\ cart_total(cart_items) < bank_offer.min_transaction_value[1]
    THEN <<Reason("Minimum transaction value of Rs{x} not met (current: Rs{y})",
                  "", "", bank_offer.min_transaction_value[1],
                  cart_total(cart_items), {})>>
    ELSE <<>>

\* Bank_validate, were it to return at the first failing check
Bank_validate_first_failure(bank_offers, cart_items, payment_info) ==
    IF payment_info = None THEN ValidationResult(<<>>)
    ELSE IF ~TruthyStr(payment_info[1].bank_name) THEN ValidationResult(<<>>)
    ELSE IF payment_info[1].bank_name[1] \notin DOMAIN bank_offers
    THEN ValidationResult(
            <<Reason("No offers available for {a}", payment_info[1].bank_name[1],
                     "", 0, 0, {})>>)
    ELSE LET bank_offer == bank_offers[payment_info[1].bank_name[1]]
         IN  IF bank_card_type_errors(bank_offer, payment_info[1]) # <<>>
             THEN ValidationResult(
                     bank_card_type_errors(bank_offer, payment_info[1]))
             ELSE ValidationResult(
                     bank_min_transaction_errors(bank_offer, cart_items))

\* BankOfferStrategy.validate
Bank_validate(bank_offers, cart_items, payment_info) ==
    IF payment_info = None THEN ValidationResult(<<>>)
    ELSE IF ~TruthyStr(payment_info[1].bank_name) THEN ValidationResult(<<>>)
    ELSE IF payment_info[1].bank_name[1] \notin DOMAIN bank_offers
    THEN ValidationResult(
            <<Reason("No offers available for {a}", payment_info[1].bank_name[1],
                     "", 0, 0, {})>>)
    ELSE LET bank_offer == bank_offers[payment_info[1].bank_name[1]]
         IN  ValidationResult(
                bank_card_type_errors(bank_offer, payment_info[1])
                \o bank_min_transaction_errors(bank_offer, cart_items))

(***************************************************************************)
(* discount_service.py                                                     *)
(***************************************************************************)
\* the strategies the service is constructed with (get_*_strategy())
brand_strategy == BRAND_DISCOUNTS

category_strategy == CATEGORY_DISCOUNTS

voucher_strategy == VOUCHERS

bank_strategy == BANK_OFFERS

\* the caller's list object
CallerRef(items) == [id |-> "caller", items |-> items]

\* deepcopy, were the list handed on without a copy
deepcopy_shared(ref) == ref

\* copy.deepcopy(cart_items): a new object with equal content
deepcopy(ref) == [id |-> "copy", items |-> ref.items]

\* The caller's list after a strategy left `items` in the object `ref`: it
\* changes only if `ref` is the caller's own object.
Mutated(caller, ref, items) ==
    IF ref.id = caller.id THEN [caller EXCEPT !.items = items] ELSE caller

\* a key of applied_discounts: "Brand Discount", "Voucher (<code>)", ...
Label(kind, arg) == [kind |-> kind, arg |-> arg]

\* Record, were the test `if amount:` instead of `amount > Decimal("0")`
Record_nonzero(name, amount) ==
    IF amount # 0 THEN <<[name |-> name, amount |-> amount]>> ELSE <<>>

\* applied_discounts[name] = amount, when amount > Decimal("0")
Record(name, amount) ==
    IF amount > 0 THEN <<[name |-> name, amount |-> amount]>> ELSE <<>>

\* one entry of the message list, when amount > Decimal("0")
Note(template, a, amount) ==
    IF amount > 0 THEN <<<<Reason(template, a, "", amount, 0, {})>>>> ELSE <<>>

\* applied_discounts.get(name, Decimal("0"))
dict_get(applied_discounts, name) ==
    IF \E i \in DOMAIN applied_discounts : applied_discounts[i].name = name
    THEN LET i == CHOOSE j \in DOMAIN applied_discounts :
                    applied_discounts[j].name = name
         IN  applied_discounts[i].amount
    ELSE 0

\* sum(applied_discounts.values())
dict_sum(applied_discounts) ==
    SumSeq([i \in DOMAIN applied_discounts |-> applied_discounts[i].amount])

\* final_price_of, without the floor
final_price_unfloored(original, total_discount) ==
    Quantize(original - total_discount, 1)

\* (original_total - total_discount).quantize(0.01), floored at Decimal("0")
final_price_of(original, total_discount) ==
    LET final_price == Quantize(original - total_discount, 1)
    IN  IF final_price < 0 THEN 0 ELSE final_price

\* sum(...) starts from the int 0: the total of no terms is an int, which has
\* no quantize(); one Decimal term makes the total a Decimal.  The price
\* computation (original_total - total_discount).quantize(...) raises
\* AttributeError when both totals are ints, and original_total.quantize(...)
\* in the returned DiscountedPrice raises it whenever the cart is empty,
\* whatever applied_discounts holds.
price_raises(cart_items, applied_discounts) ==
    IF cart_items = <<>> /\ applied_discounts = <<>> THEN "AttributeError"
    ELSE IF cart_items = <<>> THEN "AttributeError"
    ELSE ""

DiscountedPrice(original_price, final_price, applied_discounts, message) ==
    [original_price |-> original_price, final_price |-> final_price,
     applied_discounts |-> applied_discounts, message |-> message]

\* the f"Voucher ({voucher_code})" key; Python formats None as "None"
voucher_label(voucher_code) ==
    Label("Voucher", IF voucher_code = None THEN "None" ELSE voucher_code[1])

\* the f"Bank Offer ({payment_info.bank_name})" key
bank_label(payment_info) ==
    Label("Bank Offer",
          IF payment_info[1].bank_name = None THEN "None"
          ELSE payment_info[1].bank_name[1])

\* stacked_voucher_step, were the verdict not consulted
stacked_voucher_step_unvalidated(items, customer, voucher_code) ==
    IF TruthyStr(voucher_code)
    THEN LET voucher_discount ==
                Voucher_calculate(voucher_strategy, items, voucher_code)
         IN  [applied |-> Record(voucher_label(voucher_code), voucher_discount),
              notes |-> Note("Voucher '{a}' applied: Rs{x}", voucher_code[1],
                             voucher_discount)]
    ELSE [applied |-> <<>>, notes |-> <<>>]

\* step 3 of the stacking pipeline: the voucher's entry and note
stacked_voucher_step(items, customer, voucher_code) ==
    IF TruthyStr(voucher_code)
    THEN LET voucher_validation ==
                Voucher_validate(voucher_strategy, items, customer, voucher_code)
             voucher_discount ==
                Voucher_calculate(voucher_strategy, items, voucher_code)
         IN  IF voucher_validation.is_valid
             THEN [applied |-> Record(voucher_label(voucher_code), voucher_discount),
                   notes |-> Note("Voucher '{a}' applied: Rs{x}", voucher_code[1],
                                  voucher_discount)]
             ELSE [applied |-> <<>>,
                   notes |-> << <<Text("Voucher validation failed: ")>>
                                \o error_message(voucher_validation) >>]
    ELSE [applied |-> <<>>, notes |-> <<>>]

\* stacked_bank_step, were a zero bank discount recorded and announced too
stacked_bank_step_recording_zero(items, payment_info, current_cart_total) ==
    IF payment_info # None
    THEN LET bank_validation == Bank_validate(bank_strategy, items, payment_info)
             bank_discount == Bank_calculate(bank_strategy, items, payment_info)
         IN  IF bank_validation.is_valid
             THEN [applied |-> <<[name |-> bank_label(payment_info),
                                  amount |-> bank_discount]>>,
                   notes |-> <<<<Reason("Bank offer applied: Rs{x}", "", "",
                                        bank_discount, 0, {})>>>>]
             ELSE IF bank_validation.errors # <<>>
             THEN [applied |-> <<>>,
                   notes |-> << <<Text("Bank offer validation failed: ")>>
                                \o error_message(bank_validation) >>]
             ELSE [applied |-> <<>>, notes |-> <<>>]
    ELSE [applied |-> <<>>, notes |-> <<>>]

\* step 4 of the stacking pipeline: the bank offer's entry and note.  The
\* strategy reads the context's cart items; current_cart_total is not passed.
stacked_bank_step(items, payment_info, current_cart_total) ==
    IF payment_info # None
    THEN LET bank_validation == Bank_validate(bank_strategy, items, payment_info)
             bank_discount == Bank_calculate(bank_strategy, items, payment_info)
         IN  IF bank_validation.is_valid
             THEN [applied |-> Record(bank_label(payment_info), bank_discount),
                   notes |-> Note("Bank offer applied: Rs{x}", "", bank_discount)]
             ELSE IF bank_validation.errors # <<>>
             THEN [applied |-> <<>>,
                   notes |-> << <<Text("Bank offer validation failed: ")>>
                                \o error_message(bank_validation) >>]
             ELSE [applied |-> <<>>, notes |-> <<>>]
    ELSE [applied |-> <<>>, notes |-> <<>>]

\* stacked_result, were the message chosen by the breakdown being empty
stacked_result_silent_when_empty(cart_items, cart_items_copy, items, original, applied_discounts, messages) ==
    [price |-> DiscountedPrice(
                  Quantize(original, 1),
                  final_price_of(original, dict_sum(applied_discounts)),
                  applied_discounts,
                  IF applied_discounts = <<>> THEN <<Text("No discounts applied")>>
                  ELSE Join(messages, Text(" | "))),
     raised |-> price_raises(cart_items_copy.items, applied_discounts),
     caller |-> Mutated(cart_items, cart_items_copy, items)]

\* the end of _calculate_stacked_discounts: the final price, the message and
\* the returned DiscountedPrice; `items` is the working copy's content
stacked_result(cart_items, cart_items_copy, items, original, applied_discounts, messages) ==
    [price |-> DiscountedPrice(
                  Quantize(original, 1),
                  final_price_of(original, dict_sum(applied_discounts)),
                  applied_discounts,
                  IF messages = <<>> THEN <<Text("No discounts applied")>>
                  ELSE Join(messages, Text(" | "))),
     raised |-> price_raises(cart_items_copy.items, applied_discounts),
     caller |-> Mutated(cart_items, cart_items_copy, items)]

\* step 4 on top of the first three: current_cart_total, then the bank offer
stacked_with_bank(cart_items, cart_items_copy, items, payment_info, voucher_code, applied3, messages3) ==
    LET current_cart_total ==
            cart_total(items) - dict_get(applied3, voucher_label(voucher_code))
        bank == stacked_bank_step(items, payment_info, current_cart_total)
    IN  stacked_result(cart_items, cart_items_copy, items,
                       original_total(cart_items_copy.items),
                       applied3 \o bank.applied, messages3 \o bank.notes)

\* stacked_with_voucher, were the voucher taken on the cart as it entered
stacked_with_voucher_before_rules(cart_items, cart_items_copy, items, customer, payment_info, voucher_code, applied2, messages2) ==
    LET voucher == stacked_voucher_step(cart_items_copy.items, customer, voucher_code)
    IN  stacked_with_bank(cart_items, cart_items_copy, items, payment_info,
                          voucher_code, applied2 \o voucher.applied,
                          messages2 \o voucher.notes)

\* step 3 on top of the first two: the voucher, validated on the working copy
stacked_with_voucher(cart_items, cart_items_copy, items, customer, payment_info, voucher_code, applied2, messages2) ==
    LET voucher == stacked_voucher_step(items, customer, voucher_code)
    IN  stacked_with_bank(cart_items, cart_items_copy, items, payment_info,
                          voucher_code, applied2 \o voucher.applied,
                          messages2 \o voucher.notes)

\* step 2 on top of step 1: the category rule on the brand-reduced copy
stacked_with_category(cart_items, cart_items_copy, customer, payment_info, voucher_code, brand) ==
    LET category == Category_calculate(category_strategy, brand.cart_items)
    IN  stacked_with_voucher(
            cart_items, cart_items_copy, category.cart_items, customer,
            payment_info, voucher_code,
            Record(Label("Brand Discount", ""), brand.amount)
            \o Record(Label("Category Discount", ""), category.amount),
            Note("Brand discount: Rs{x}", "", brand.amount)
            \o Note("Category discount: Rs{x}", "", category.amount))

\* step 1: the brand rule on the working copy
stacked_with_brand(cart_items, cart_items_copy, customer, payment_info, voucher_code) ==
    stacked_with_category(cart_items, cart_items_copy, customer, payment_info,
                          voucher_code,
                          Brand_calculate(brand_strategy, cart_items_copy.items))

\* DiscountService._calculate_stacked_discounts: the returned DiscountedPrice
\* and the caller's list after the call
calculate_stacked_discounts(cart_items, customer, payment_info, voucher_code) ==
    stacked_with_brand(cart_items, deepcopy(cart_items), customer, payment_info,
                       voucher_code)

\* the candidates of the best-discount mode, in insertion order, and the
\* caller's list after they were computed
best_discount_candidates(cart_items, customer, payment_info, voucher_code) ==
    LET cart_items_brand == deepcopy(cart_items)
        brand == Brand_calculate(brand_strategy, cart_items_brand.items)
        caller1 == Mutated(cart_items, cart_items_brand, brand.cart_items)
        cart_items_category == deepcopy(caller1)
        category == Category_calculate(category_strategy, cart_items_category.items)
        caller2 == Mutated(caller1, cart_items_category, category.cart_items)
        cart_items_voucher == deepcopy(caller2)
        voucher_validation ==
            Voucher_validate(voucher_strategy, cart_items_voucher.items, customer,
                             voucher_code)
        voucher_discount ==
            Voucher_calculate(voucher_strategy, cart_items_voucher.items, voucher_code)
        cart_items_bank == deepcopy(caller2)
        bank_validation ==
            Bank_validate(bank_strategy, cart_items_bank.items, payment_info)
        bank_discount ==
            Bank_calculate(bank_strategy, cart_items_bank.items, payment_info)
    IN  [candidates |->
            Record(Label("Brand Discount", ""), brand.amount)
            \o Record(Label("Category Discount", ""), category.amount)
            \o (IF TruthyStr(voucher_code) /\ voucher_validation.is_valid
                THEN Record(voucher_label(voucher_code), voucher_discount)
                ELSE <<>>)
            \o (IF payment_info # None /\ bank_validation.is_valid
                THEN Record(bank_label(payment_info), bank_discount)
                ELSE <<>>),
         caller |-> caller2]

\* max_by_amount, were the last of the largest items returned
max_by_amount_last(discount_candidates) ==
    LET i == CHOOSE j \in DOMAIN discount_candidates :
                /\ \A k \in DOMAIN discount_candidates :
                      discount_candidates[k].amount <= discount_candidates[j].amount
                /\ \A k \in (j + 1)..Len(discount_candidates) :
                      discount_candidates[k].amount < discount_candidates[j].amount
    IN  discount_candidates[i]

\* max_by_amount, were min() called
min_by_amount(discount_candidates) ==
    LET i == CHOOSE j \in DOMAIN discount_candidates :
                /\ \A k \in DOMAIN discount_candidates :
                      discount_candidates[k].amount >= discount_candidates[j].amount
                /\ \A k \in 1..(j - 1) :
                      discount_candidates[k].amount > discount_candidates[j].amount
    IN  discount_candidates[i]

\* max(discount_candidates.items(), key=lambda x: x[1]): the first item, in
\* insertion order, whose amount no other exceeds
max_by_amount(discount_candidates) ==
    LET i == CHOOSE j \in DOMAIN discount_candidates :
                /\ \A k \in DOMAIN discount_candidates :
                      discount_candidates[k].amount <= discount_candidates[j].amount
                /\ \A k \in 1..(j - 1) :
                      discount_candidates[k].amount < discount_candidates[j].amount
    IN  discount_candidates[i]

\* the end of _calculate_best_discount: the message, the final price and the
\* returned DiscountedPrice, from the selected entry
best_discount_result(cart_items, original, found, applied_discounts) ==
    [price |-> DiscountedPrice(
                  Quantize(original, 1),
                  final_price_of(original, dict_sum(applied_discounts)),
                  applied_discounts,
                  IF applied_discounts # <<>>
                  THEN <<Reason("Best discount applied: {a} ({b}) - Rs{x}",
                                applied_discounts[1].name.kind,
                                applied_discounts[1].name.arg,
                                applied_discounts[1].amount, 0, {})>>
                  ELSE <<Text("No discounts applied")>>),
     raised |-> price_raises(cart_items.items, applied_discounts),
     caller |-> found.caller]

\* the selection of _calculate_best_discount: the best candidate, if any
best_discount_selection(cart_items, original, found) ==
    best_discount_result(cart_items, original, found,
                         IF found.candidates # <<>>
                         THEN <<max_by_amount(found.candidates)>>
                         ELSE <<>>)

\* DiscountService._calculate_best_discount
calculate_best_discount(cart_items, customer, payment_info, voucher_code) ==
    best_discount_selection(
        cart_items, original_total(cart_items.items),
        best_discount_candidates(cart_items, customer, payment_info, voucher_code))

\* DiscountService.calculate_cart_discounts
calculate_cart_discounts(allow_discount_stacking, cart_items, customer, payment_info, voucher_code) ==
    IF allow_discount_stacking
    THEN calculate_stacked_discounts(cart_items, customer, payment_info, voucher_code)
    ELSE calculate_best_discount(cart_items, customer, payment_info, voucher_code)

\* validate_discount_code_of, were a voucher consumed by a successful validation
validate_discount_code_of_consuming(vouchers, code, cart_items, customer) ==
    LET context_cart_items == cart_items
        validation_result ==
            Voucher_validate(vouchers, context_cart_items.items, customer, code)
    IN  [is_valid |-> validation_result.is_valid,
         caller |-> Mutated(cart_items, context_cart_items, context_cart_items.items),
         vouchers |-> IF validation_result.is_valid
                      THEN [c \in DOMAIN vouchers \ {code[1]} |-> vouchers[c]]
                      ELSE vouchers]

\* DiscountService.validate_discount_code of a service constructed with the
\* voucher strategy `vouchers`: the context shares the caller's list.  The
\* result carries the verdict, the caller's list and the strategy's rule
\* table as the call leaves them: validate reads the cart (get_subtotal,
\* brand, category, brand_tier) and the table (.get, set intersections,
\* comparisons) and assigns to neither.
validate_discount_code_of(vouchers, code, cart_items, customer) ==
    LET context_cart_items == cart_items
        validation_result ==
            Voucher_validate(vouchers, context_cart_items.items, customer, code)
    IN  [is_valid |-> validation_result.is_valid,
         caller |-> Mutated(cart_items, context_cart_items, context_cart_items.items),
         vouchers |-> vouchers]

\* DiscountService.validate_discount_code of the configured service
validate_discount_code(code, cart_items, customer) ==
    validate_discount_code_of(voucher_strategy, code, cart_items, customer)

(***************************************************************************)
(* The callers' inputs.                                                    *)
(***************************************************************************)
\* a caller's product whose brand discount falls on a half: 35% of 0.30
ADIDAS_SOCKS == Product("P006", "ADIDAS", "regular", "Shoes", 30, 30)

\* The items a cart is drawn from: the fake_data products, a small item in
\* quantity 3, and one item of negative quantity (the service does not
\* reject it).
ItemChoices ==
    << CartItem(PUMA_TSHIRT, 1, "L"), CartItem(NIKE_SHOES, 1, "10"),
       CartItem(ADIDAS_JEANS, 1, "32"), CartItem(BUDGET_TSHIRT, 1, "M"),
       CartItem(PREMIUM_JACKET, 1, "M"), CartItem(ADIDAS_SOCKS, 3, "S"),
       CartItem(PUMA_TSHIRT, -1, "L") >>

\* carts of n items, up to the order of the items
CartsOfLen(n) ==
    {[i \in 1..n |-> ItemChoices[f[i]]] :
        f \in {g \in [1..n -> DOMAIN ItemChoices] :
                  \A i \in 1..(n - 1) : g[i] <= g[i + 1]}}

Carts == UNION {CartsOfLen(n) : n \in 0..MaxItems}

Customers == {NEW_CUSTOMER, SILVER_CUSTOMER, GOLD_CUSTOMER, PLATINUM_CUSTOMER}

\* the customers that check out: one below and one at the tier GOLD50 asks for
CheckoutCustomers == {NEW_CUSTOMER, GOLD_CUSTOMER}

\* a card of a bank with no configured offer
AXIS_CARD_PAYMENT == PaymentInfo("CARD", Some("AXIS"), Some("CREDIT"))

Payments ==
    {None, Some(ICICI_CARD_PAYMENT), Some(HDFC_CREDIT_PAYMENT),
     Some(HDFC_DEBIT_PAYMENT), Some(SBI_CARD_PAYMENT), Some(UPI_PAYMENT),
     Some(AXIS_CARD_PAYMENT)}

Codes == {"SUPER69", "NEWUSER20", "TSHIRT15", "GOLD50", "INVALID123"}

VoucherCodes == {None} \cup {Some(c) : c \in Codes}

\* A rule table a caller builds for a strategy of its own, as the strategy
\* tests do.  VoucherConfig's defaults: min_cart_value, allowed_categories and
\* min_customer_tier None; excluded_brands and excluded_brand_tiers set().
TEST_VOUCHERS == [code \in {"NOCAT", "SILVER10", "PLAT30", "STRICT"} |->
    CASE code = "NOCAT" ->
            VoucherConfig("NOCAT", 10, None, {}, Some({}), {}, None)
      [] code = "SILVER10" ->
            VoucherConfig("SILVER10", 10, None, {}, None, {}, Some("silver"))
      [] code = "PLAT30" ->
            VoucherConfig("PLAT30", 30, None, {}, None, {}, Some("platinum"))
      [] code = "STRICT" ->
            VoucherConfig("STRICT", 25, Some(200000), {"NIKE", "ADIDAS"},
                          Some({"T-shirts"}), {"budget", "premium"},
                          Some("platinum"))]

\* the voucher tables a strategy is constructed with, by name
VoucherTables == [VOUCHERS |-> VOUCHERS, TEST_VOUCHERS |-> TEST_VOUCHERS]

\* the codes passed to a voucher strategy: every table's, an unknown one, ""
\* and None
StrategyCodes ==
    {None, Some("")}
    \cup {Some(c) : c \in Codes \cup DOMAIN TEST_VOUCHERS}

(***************************************************************************)
(* The state machine: a caller holds a cart (a list of CartItem objects)   *)
(* and calls the service, or a strategy, on it.  `call` records the last   *)
(* call and its arguments, `result` what it returned.                      *)
(***************************************************************************)
NoPrice == DiscountedPrice(0, 0, <<>>, <<>>)

Call(op, stacking, items, customer, payment_info, voucher_code) ==
    [op |-> op, allow_discount_stacking |-> stacking, cart_items |-> items,
     customer |-> customer, payment_info |-> payment_info,
     voucher_code |-> voucher_code, vouchers |-> "VOUCHERS"]

\* a call on a voucher strategy, or a service, constructed with a named table
CallWith(vouchers, made) == [made EXCEPT !.vouchers = vouchers]

\* what a call gave back: a DiscountedPrice, a bool or an amount, or the
\* exception it raised instead
Result(price, is_valid, amount, raised) ==
    [price |-> price, is_valid |-> is_valid, amount |-> amount, raised |-> raised,
     errors |-> <<>>]

\* a returned ValidationResult
Verdict(validation_result) ==
    [Result(NoPrice, validation_result.is_valid, 0, "")
        EXCEPT !.errors = validation_result.errors]

NoResult == Result(NoPrice, TRUE, 0, "")

\* no call is in progress and no returned value is held
Idle == Call("none", TRUE, <<>>, NEW_CUSTOMER, None, None)

Init ==
    /\ cart \in Carts
    /\ call = Idle
    /\ result = NoResult
    /\ direct = 0

\* the caller receives what calculate_cart_discounts returned or raised
Returns(made, out) ==
    /\ cart' = out.caller.items
    /\ call' = made
    /\ result' = IF out.raised = "" THEN Result(out.price, TRUE, 0, "")
                  ELSE Result(NoPrice, TRUE, 0, out.raised)
    /\ UNCHANGED direct

\* await service.calculate_cart_discounts(cart, customer, payment_info, code)
CalculateCartDiscounts ==
    /\ call = Idle
    /\ \E stacking \in BOOLEAN, customer \in CheckoutCustomers,
          payment_info \in Payments, voucher_code \in VoucherCodes :
          Returns(Call("calculate", stacking, cart, customer, payment_info,
                       voucher_code),
                  calculate_cart_discounts(stacking, CallerRef(cart), customer,
                                           payment_info, voucher_code))

\* await service.validate_discount_code(code, cart, customer)
ValidateDiscountCode ==
    /\ call = Idle
    /\ \E code \in Codes \cup {""}, customer \in Customers :
        LET out == validate_discount_code(Some(code), CallerRef(cart), customer)
        IN  /\ cart' = out.caller.items
            /\ call' = Call("validate", TRUE, cart, customer, None, Some(code))
            /\ result' = Result(NoPrice, out.is_valid, 0, "")
            /\ UNCHANGED direct

\* await brand_strategy.calculate(DiscountContext(cart_items=cart, ...))
BrandStrategyCalculate ==
    /\ call = Idle
    /\ direct < MaxDirectCalls
    /\ LET out == Brand_calculate(brand_strategy, cart)
       IN  /\ cart' = out.cart_items
           /\ call' = Call("brand", TRUE, cart, NEW_CUSTOMER, None, None)
           /\ result' = Result(NoPrice, TRUE, out.amount, "")
    /\ direct' = direct + 1

\* await brand_strategy.validate(DiscountContext(cart_items=cart, ...))
BrandStrategyValidate ==
    /\ call = Idle
    /\ call' = Call("brand.validate", TRUE, cart, NEW_CUSTOMER, None, None)
    /\ result' = Verdict(Brand_validate(brand_strategy, cart))
    /\ UNCHANGED <<cart, direct>>

\* await category_strategy.calculate(DiscountContext(cart_items=cart, ...))
CategoryStrategyCalculate ==
    /\ call = Idle
    /\ direct < MaxDirectCalls
    /\ LET out == Category_calculate(category_strategy, cart)
       IN  /\ cart' = out.cart_items
           /\ call' = Call("category", TRUE, cart, NEW_CUSTOMER, None, None)
           /\ result' = Result(NoPrice, TRUE, out.amount, "")
    /\ direct' = direct + 1

\* await DiscountService(..., VoucherDiscountStrategy(TEST_VOUCHERS), ...)
\*           .validate_discount_code(code, cart, customer)
ValidateDiscountCodeOwnRules ==
    /\ call = Idle
    /\ \E code \in DOMAIN TEST_VOUCHERS \cup {"INVALID123"}, customer \in Customers :
        LET out == validate_discount_code_of(TEST_VOUCHERS, Some(code),
                                             CallerRef(cart), customer)
        IN  /\ cart' = out.caller.items
            /\ call' = CallWith("TEST_VOUCHERS",
                                Call("validate", TRUE, cart, customer, None, Some(code)))
            /\ result' = Result(NoPrice, out.is_valid, 0, "")
            /\ UNCHANGED direct

\* await VoucherDiscountStrategy(vouchers).validate(
\*           DiscountContext(cart_items=cart, customer=..., voucher_code=...))
VoucherStrategyValidate ==
    /\ call = Idle
    /\ \E vouchers \in DOMAIN VoucherTables, voucher_code \in StrategyCodes,
          customer \in Customers :
        /\ call' = CallWith(vouchers, Call("voucher.validate", TRUE, cart, customer,
                                           None, voucher_code))
        /\ result' = Verdict(Voucher_validate(VoucherTables[vouchers], cart,
                                              customer, voucher_code))
    /\ UNCHANGED <<cart, direct>>

\* await VoucherDiscountStrategy(vouchers).calculate(
\*           DiscountContext(cart_items=cart, customer=..., voucher_code=...))
VoucherStrategyCalculate ==
    /\ call = Idle
    /\ \E vouchers \in DOMAIN VoucherTables, voucher_code \in StrategyCodes :
        /\ call' = CallWith(vouchers, Call("voucher.calculate", TRUE, cart,
                                           NEW_CUSTOMER, None, voucher_code))
        /\ result' = Result(NoPrice, TRUE,
                            Voucher_calculate(VoucherTables[vouchers], cart,
                                              voucher_code), "")
    /\ UNCHANGED <<cart, direct>>

\* await bank_strategy.validate(
\*           DiscountContext(cart_items=cart, customer=..., payment_info=...))
BankStrategyValidate ==
    /\ call = Idle
    /\ \E payment_info \in Payments :
        /\ call' = Call("bank.validate", TRUE, cart, NEW_CUSTOMER, payment_info, None)
        /\ result' = Verdict(Bank_validate(bank_strategy, cart, payment_info))
    /\ UNCHANGED <<cart, direct>>

\* await bank_strategy.calculate(
\*           DiscountContext(cart_items=cart, customer=..., payment_info=...))
BankStrategyCalculate ==
    /\ call = Idle
    /\ \E payment_info \in Payments :
        /\ call' = Call("bank.calculate", TRUE, cart, NEW_CUSTOMER, payment_info, None)
        /\ result' = Result(NoPrice, TRUE,
                            Bank_calculate(bank_strategy, cart, payment_info), "")
    /\ UNCHANGED <<cart, direct>>

\* the caller is done with the returned value; the cart object lives on
DropResult ==
    /\ call # Idle
    /\ call' = Idle
    /\ result' = NoResult
    /\ UNCHANGED <<cart, direct>>

Next ==
    \/ DropResult
    \/ CalculateCartDiscounts
    \/ ValidateDiscountCode
    \/ ValidateDiscountCodeOwnRules
    \/ BrandStrategyCalculate
    \/ BrandStrategyValidate
    \/ CategoryStrategyCalculate
    \/ VoucherStrategyValidate
    \/ VoucherStrategyCalculate
    \/ BankStrategyValidate
    \/ BankStrategyCalculate

Spec == Init /\ [][Next]_vars

(***************************************************************************)
(* Vocabulary of the properties.                                           *)
(***************************************************************************)
\* the last call was calculate_cart_discounts and it returned a result
Returned == call.op = "calculate" /\ result.raised = ""

\* ... of the stacking service
Stacked == Returned /\ call.allow_discount_stacking

\* ... of the best-discount service
Best == Returned /\ ~call.allow_discount_stacking

\* a cart of the data model: every quantity is a positive integer
WellFormed(items) == \A i \in DOMAIN items : items[i].quantity >= 1

\* every item enters with current_price = base_price
Fresh(items) ==
    \A i \in DOMAIN items : items[i].product.current_price = items[i].product.base_price

\* the amount recorded in the returned breakdown under a label, 0 if none
Entry(kind, arg) == dict_get(result.price.applied_discounts, Label(kind, arg))

HasEntry(kind) ==
    \E i \in DOMAIN result.price.applied_discounts :
        result.price.applied_discounts[i].name.kind = kind

\* the breakdown without its entries of one kind
Without(applied, kind) == SelectSeq(applied, LAMBDA e : e.name.kind # kind)

\* the token occurs in the returned message
InMessage(token) == \E i \in DOMAIN result.price.message : result.price.message[i] = token

\* the percentage configured for a key, 0 if none
PctOf(table, key) == IF key \in DOMAIN table THEN table[key] ELSE 0

\* the working cart of the stacking pipeline after the brand and category steps
PostItems(items) ==
    Category_calculate(CATEGORY_DISCOUNTS,
                       Brand_calculate(BRAND_DISCOUNTS, items).cart_items).cart_items

Max(a, b) == IF a >= b THEN a ELSE b

\* the bank named by the payment info, "" if none
BankOf(payment_info) ==
    IF payment_info # None /\ payment_info[1].bank_name # None
    THEN payment_info[1].bank_name[1] ELSE ""

\* the payment info names a configured offer whose card type it satisfies
OfferMatches(payment_info) ==
    /\ BankOf(payment_info) \in DOMAIN BANK_OFFERS
    /\ LET offer == BANK_OFFERS[BankOf(payment_info)]
       IN  offer.card_type = None \/ offer.card_type = payment_info[1].card_type

\* the offer's minimum transaction value, 0 if none
OfferMinimum(payment_info) ==
    LET offer == BANK_OFFERS[BankOf(payment_info)]
    IN  IF offer.min_transaction_value = None THEN 0 ELSE offer.min_transaction_value[1]

(***************************************************************************)
(* C1.  In both modes the final_price a call returns is never negative,    *)
(* whatever the cart, customer, payment info and voucher code.             *)
(***************************************************************************)
C1_FinalPriceNonNegative == Returned => result.price.final_price >= 0

\* a cart of negative total was priced, and the floor gave 0
C1_Witness ==
    /\ Returned
    /\ result.price.original_price < 0
    /\ result.price.final_price = 0

(***************************************************************************)
(* C2.  As claimed: final_price <= original_price for every cart the       *)
(* pipeline accepts, carts with a negative quantity included.              *)
(***************************************************************************)
C2_Original_FinalAtMostOriginal ==
    Returned => result.price.final_price <= result.price.original_price

\* C2 as amended: final_price <= original_price for every cart whose
\* original_price is not negative.
C2_FinalAtMostOriginal ==
    (Returned /\ result.price.original_price >= 0)
        => result.price.final_price <= result.price.original_price

\* a cart holding an item of negative quantity, of positive total, was
\* priced with a discount
C2_Witness ==
    /\ Returned
    /\ ~WellFormed(call.cart_items)
    /\ result.price.original_price > 0
    /\ result.price.applied_discounts # <<>>
    /\ result.price.final_price < result.price.original_price

(***************************************************************************)
(* C3.  As claimed: in stacking mode, when a valid voucher was recorded    *)
(* and the payment matches a bank offer, the bank discount and its minimum *)
(* check are taken on the cart total after brand, category and voucher:    *)
(* round2((sum of current_price x quantity - voucher discount) x pct/100). *)
(***************************************************************************)
C3_BankAfterVoucher ==
    (/\ Stacked
     /\ HasEntry("Voucher")
     /\ OfferMatches(call.payment_info))
        => LET net == cart_total(PostItems(call.cart_items))
                      - Entry("Voucher", call.voucher_code[1])
               pct == BANK_OFFERS[BankOf(call.payment_info)].discount_percentage
           IN  Entry("Bank Offer", BankOf(call.payment_info))
                  = IF net < OfferMinimum(call.payment_info) THEN 0
                    ELSE Max(0, PercentOf(net, pct))

(***************************************************************************)
(* C4.  In stacking mode with no voucher and no payment info, for a cart   *)
(* of positive quantities whose items enter with current_price =           *)
(* base_price: the brand amount is the sum of round2(base x brand pct/100) *)
(* x quantity, the category amount the sum of round2((base - brand item    *)
(* discount) x category pct / 100) x quantity, and final_price =           *)
(* original_price - brand amount - category amount.                        *)
(***************************************************************************)
C4_BrandThenCategory ==
    (/\ Stacked
     /\ call.voucher_code = None /\ call.payment_info = None
     /\ Fresh(call.cart_items) /\ WellFormed(call.cart_items))
        => LET items == call.cart_items
               brand_item(i) ==
                   Quantize(items[i].product.base_price
                            * PctOf(BRAND_DISCOUNTS, items[i].product.brand), 100)
               category_item(i) ==
                   Quantize((items[i].product.base_price - brand_item(i))
                            * PctOf(CATEGORY_DISCOUNTS, items[i].product.category), 100)
               brand_amount ==
                   SumSeq([i \in DOMAIN items |-> brand_item(i) * items[i].quantity])
               category_amount ==
                   SumSeq([i \in DOMAIN items |-> category_item(i) * items[i].quantity])
           IN  /\ Entry("Brand Discount", "") = brand_amount
               /\ Entry("Category Discount", "") = category_amount
               /\ result.price.final_price
                    = result.price.original_price - brand_amount - category_amount

\* the 1000 PUMA T-shirt: 400.00, 60.00 and 540.00
C4_Witness ==
    /\ Stacked
    /\ call.voucher_code = None /\ call.payment_info = None
    /\ call.cart_items = get_multiple_discount_scenario
    /\ Entry("Brand Discount", "") = 40000
    /\ Entry("Category Discount", "") = 6000
    /\ result.price.final_price = 54000

(***************************************************************************)
(* C5.  In stacking mode with no voucher, for a cart of positive           *)
(* quantities, a bank offer whose bank name, card type and minimum         *)
(* transaction value are satisfied adds round2(post-brand/category cart    *)
(* total x bank pct / 100), recorded under "Bank Offer (<bank>)" when      *)
(* positive, and final_price is lower by exactly that amount than without  *)
(* the payment info.                                                       *)
(***************************************************************************)
C5_BankOnPostCategoryTotal ==
    (/\ Stacked
     /\ call.voucher_code = None
     /\ WellFormed(call.cart_items)
     /\ OfferMatches(call.payment_info)
     /\ cart_total(PostItems(call.cart_items)) >= OfferMinimum(call.payment_info))
        => LET total == cart_total(PostItems(call.cart_items))
               pct == BANK_OFFERS[BankOf(call.payment_info)].discount_percentage
               bank_amount == Quantize(total * pct, 100)
               unpaid == calculate_stacked_discounts(
                            CallerRef(call.cart_items), call.customer, None, None).price
           IN  /\ Entry("Bank Offer", BankOf(call.payment_info)) = bank_amount
               /\ result.price.final_price = unpaid.final_price - bank_amount
               /\ Without(result.price.applied_discounts, "Bank Offer")
                    = unpaid.applied_discounts

\* the 1000 PUMA T-shirt paid by ICICI card: 54.00 and 486.00
C5_Witness ==
    /\ Stacked
    /\ call.voucher_code = None
    /\ call.payment_info = Some(ICICI_CARD_PAYMENT)
    /\ call.cart_items = get_multiple_discount_scenario
    /\ Entry("Bank Offer", "ICICI") = 5400
    /\ result.price.final_price = 48600

(***************************************************************************)
(* C6.  In best-discount mode, for a cart of positive quantities, the      *)
(* breakdown has at most one entry.  If a candidate (brand, category,      *)
(* valid voucher, valid bank offer) is positive, exactly one entry is      *)
(* recorded, it is one of the candidates, its amount is >= every           *)
(* candidate's and final_price = max(0, original_price - amount).  If none *)
(* is positive the breakdown is empty, final_price = original_price and    *)
(* the message is "No discounts applied".                                  *)
(***************************************************************************)
C6_BestIsSingleMaximum ==
    (Best /\ WellFormed(call.cart_items))
        => LET items == call.cart_items
               applied == result.price.applied_discounts
               brand == Brand_calculate(BRAND_DISCOUNTS, items).amount
               category == Category_calculate(CATEGORY_DISCOUNTS, items).amount
               voucher ==
                   IF /\ TruthyStr(call.voucher_code)
                      /\ Voucher_validate(VOUCHERS, items, call.customer,
                                          call.voucher_code).is_valid
                   THEN Voucher_calculate(VOUCHERS, items, call.voucher_code)
                   ELSE 0
               bank ==
                   IF /\ call.payment_info # None
                      /\ Bank_validate(BANK_OFFERS, items, call.payment_info).is_valid
                   THEN Bank_calculate(BANK_OFFERS, items, call.payment_info)
                   ELSE 0
               amounts == {brand, category, voucher, bank}
           IN  /\ Len(applied) <= 1
               /\ (\E a \in amounts : a > 0)
                    => /\ Len(applied) = 1
                       /\ applied[1].amount \in amounts
                       /\ \A a \in amounts : applied[1].amount >= a
                       /\ result.price.final_price
                            = Max(0, result.price.original_price - applied[1].amount)
               /\ (\A a \in amounts : a <= 0)
                    => /\ applied = <<>>
                       /\ result.price.final_price = result.price.original_price
                       /\ result.price.message = <<Text("No discounts applied")>>

\* the 1000 PUMA T-shirt with SUPER69 and an ICICI card: four positive
\* candidates, the voucher's 690.00 is the one applied
C6_Witness ==
    /\ Best
    /\ call.cart_items = get_multiple_discount_scenario
    /\ call.voucher_code = Some("SUPER69")
    /\ call.payment_info = Some(ICICI_CARD_PAYMENT)
    /\ result.price.applied_discounts
         = <<[name |-> Label("Voucher", "SUPER69"), amount |-> 69000]>>
    /\ result.price.final_price = 31000

(***************************************************************************)
(* C7.  As claimed: in best-discount mode the category, voucher and bank   *)
(* candidates are the rule's percentage of base_price x quantity, whatever *)
(* current_price the caller's cart items carry on entry.                   *)
(***************************************************************************)
C7_CandidatesOnBasePrices ==
    (call.op = "calculate" /\ ~call.allow_discount_stacking)
        => LET items == call.cart_items
               candidates ==
                   best_discount_candidates(CallerRef(items), call.customer,
                                            call.payment_info, call.voucher_code).candidates
               on_base(kind, arg) ==
                   CASE kind = "Category Discount" ->
                          SumSeq([i \in DOMAIN items |->
                                    Quantize(items[i].product.base_price
                                             * PctOf(CATEGORY_DISCOUNTS,
                                                     items[i].product.category), 100)
                                    * items[i].quantity])
                     [] kind = "Voucher" ->
                          Quantize(original_total(items)
                                   * VOUCHERS[arg].discount_percentage, 100)
                     [] kind = "Bank Offer" ->
                          Quantize(original_total(items)
                                   * BANK_OFFERS[arg].discount_percentage, 100)
           IN  \A i \in DOMAIN candidates :
                  candidates[i].name.kind # "Brand Discount"
                     => candidates[i].amount
                          = on_base(candidates[i].name.kind, candidates[i].name.arg)

(***************************************************************************)
(* C8.  calculate_cart_discounts (either mode) and validate_discount_code  *)
(* leave the caller's cart as it was: every item has the current_price,    *)
(* base_price and quantity it had before the call, and a second call on    *)
(* the same cart object gives the same result.                             *)
(***************************************************************************)
C8_CallerCartUnchanged ==
    /\ call.op = "calculate"
         => /\ cart = call.cart_items
            /\ LET again == calculate_cart_discounts(
                               call.allow_discount_stacking, CallerRef(cart),
                               call.customer, call.payment_info, call.voucher_code)
               IN  /\ again.raised = result.raised
                   /\ again.raised = "" => again.price = result.price
    /\ call.op = "validate"
         => /\ cart = call.cart_items
            /\ validate_discount_code_of(VoucherTables[call.vouchers],
                                         call.voucher_code, CallerRef(cart),
                                         call.customer).is_valid = result.is_valid

\* the stacking pipeline lowered the prices of its working copy, and the
\* caller's items still carry current_price = base_price
C8_Witness ==
    /\ Stacked
    /\ HasEntry("Brand Discount") /\ HasEntry("Category Discount")
    /\ Fresh(call.cart_items)
    /\ cart = call.cart_items

(***************************************************************************)
(* C9.  In stacking mode, when the supplied voucher code fails validation, *)
(* no voucher entry is recorded, the message carries a "Voucher validation *)
(* failed" note, and the breakdown is exactly the one produced for the     *)
(* same cart, customer and payment info with no voucher code.              *)
(***************************************************************************)
C9_InvalidVoucherSkipped ==
    (/\ Stacked
     /\ TruthyStr(call.voucher_code)
     /\ ~Voucher_validate(VOUCHERS, PostItems(call.cart_items), call.customer,
                          call.voucher_code).is_valid)
        => /\ ~HasEntry("Voucher")
           /\ InMessage(Text("Voucher validation failed: "))
           /\ result.price.applied_discounts
                = calculate_stacked_discounts(
                     CallerRef(call.cart_items), call.customer, call.payment_info,
                     None).price.applied_discounts

\* the 1000 PUMA T-shirt, ICICI card, unknown code: brand, category and bank
\* are recorded and the note is in the message
C9_Witness ==
    /\ Stacked
    /\ call.voucher_code = Some("INVALID123")
    /\ call.payment_info = Some(ICICI_CARD_PAYMENT)
    /\ call.cart_items = get_multiple_discount_scenario
    /\ HasEntry("Brand Discount") /\ HasEntry("Category Discount")
    /\ Entry("Bank Offer", "ICICI") = 5400
    /\ ~HasEntry("Voucher")
    /\ InMessage(Text("Voucher validation failed: "))

(***************************************************************************)
(* C10.  As claimed: in both modes, for a cart of positive quantities,     *)
(* whenever the supplied voucher code fails validation, or the supplied    *)
(* bank offer fails validation with reasons, the other eligible discounts  *)
(* are still applied and the message carries every failure reason.         *)
(***************************************************************************)
C10_FailureReasonInMessage ==
    (Returned /\ WellFormed(call.cart_items))
        => LET stacking == call.allow_discount_stacking
               \* the cart each rule is validated against in this mode
               seen == IF stacking THEN PostItems(call.cart_items) ELSE call.cart_items
               voucher_validation ==
                   Voucher_validate(VOUCHERS, seen, call.customer, call.voucher_code)
               bank_validation == Bank_validate(BANK_OFFERS, seen, call.payment_info)
               voucher_failed == TruthyStr(call.voucher_code) /\ ~voucher_validation.is_valid
               bank_failed == call.payment_info # None /\ ~bank_validation.is_valid
               others(payment_info, voucher_code) ==
                   calculate_cart_discounts(stacking, CallerRef(call.cart_items),
                                            call.customer, payment_info,
                                            voucher_code).price.applied_discounts
           IN  /\ voucher_failed
                    => /\ \A i \in DOMAIN voucher_validation.errors :
                             InMessage(voucher_validation.errors[i])
                       /\ result.price.applied_discounts = others(call.payment_info, None)
               /\ bank_failed
                    => /\ \A i \in DOMAIN bank_validation.errors :
                             InMessage(bank_validation.errors[i])
                       /\ result.price.applied_discounts = others(None, call.voucher_code)

(***************************************************************************)
(* C11.  As claimed: calculate_cart_discounts never ends in an error; for  *)
(* every cart it returns a priced result, and for the empty cart that      *)
(* result has original_price = final_price = 0, an empty breakdown and the *)
(* message "No discounts applied".                                         *)
(***************************************************************************)
C11_AlwaysReturnsPrice ==
    call.op = "calculate"
        => /\ result.raised = ""
           /\ call.cart_items = <<>>
                => result.price = DiscountedPrice(0, 0, <<>>,
                                                  <<Text("No discounts applied")>>)

(***************************************************************************)
(* Vocabulary of the strategy-level properties.                            *)
(***************************************************************************)
\* the loyalty rank: new < silver < gold < platinum
Rank(tier) ==
    CASE tier = "new" -> 0 [] tier = "silver" -> 1
      [] tier = "gold" -> 2 [] tier = "platinum" -> 3

\* the last call went to a voucher strategy, or to validate_discount_code,
\* with a code of the strategy's table
KnownCode ==
    /\ call.op \in {"voucher.validate", "voucher.calculate", "validate"}
    /\ TruthyStr(call.voucher_code)
    /\ call.voucher_code[1] \in DOMAIN VoucherTables[call.vouchers]

\* the rule of that code
CalledVoucher == VoucherTables[call.vouchers][call.voucher_code[1]]

\* sum of current_price x quantity over the call's cart
Subtotal ==
    SumSeq([i \in DOMAIN call.cart_items |->
              call.cart_items[i].product.current_price * call.cart_items[i].quantity])

\* the five eligibility checks, as the rule states them, on the call's inputs
FailsMinCart ==
    CalledVoucher.min_cart_value # None /\ Subtotal < CalledVoucher.min_cart_value[1]

FailsExcludedBrands ==
    \E i \in DOMAIN call.cart_items :
        call.cart_items[i].product.brand \in CalledVoucher.excluded_brands

FailsAllowedCategories ==
    /\ CalledVoucher.allowed_categories # None
    /\ \E i \in DOMAIN call.cart_items :
          call.cart_items[i].product.category \notin CalledVoucher.allowed_categories[1]

FailsExcludedTiers ==
    \E i \in DOMAIN call.cart_items :
        call.cart_items[i].product.brand_tier \in CalledVoucher.excluded_brand_tiers

FailsCustomerTier ==
    /\ CalledVoucher.min_customer_tier # None
    /\ Rank(call.customer.tier) < Rank(CalledVoucher.min_customer_tier[1])

\* the number of reasons of the returned verdict made from a template
ReasonsOf(template) ==
    Cardinality({i \in DOMAIN result.errors : result.errors[i].kind = template})

(***************************************************************************)
(* C12.  As claimed: for a known voucher code, validate evaluates all five *)
(* eligibility checks without short-circuiting: the verdict holds exactly  *)
(* one reason per failing check and is_valid is true if and only if no     *)
(* check fails.                                                            *)
(***************************************************************************)
C12_EveryFailingCheckReported ==
    (call.op = "voucher.validate" /\ KnownCode)
        => LET one(fails, template) ==
                   ReasonsOf(template) = IF fails THEN 1 ELSE 0
               failing ==
                   {k \in 1..5 :
                      <<FailsMinCart, FailsExcludedBrands, FailsAllowedCategories,
                        FailsExcludedTiers, FailsCustomerTier>>[k]}
           IN  /\ one(FailsMinCart,
                      "Minimum cart value of Rs{x} not met (current: Rs{y})")
               /\ one(FailsExcludedBrands, "Voucher not valid for brands: {names}")
               /\ one(FailsAllowedCategories,
                      "Voucher only valid for categories: {names}")
               /\ one(FailsExcludedTiers,
                      "Voucher not valid for {names} brand products")
               /\ one(FailsCustomerTier,
                      "Voucher requires {a} membership (current: {b})")
               /\ Len(result.errors) = Cardinality(failing)
               /\ result.is_valid <=> failing = {}

(***************************************************************************)
(* C13.  As claimed: for every voucher whose allowed_categories is set     *)
(* (anything but None), validation fails for every cart holding an item    *)
(* whose category is not in that set, and validate_discount_code returns   *)
(* False for it.                                                           *)
(***************************************************************************)
C13_AllowedCategoriesEnforced ==
    (/\ call.op \in {"voucher.validate", "validate"}
     /\ KnownCode
     /\ FailsAllowedCategories)
        => /\ ~result.is_valid
           /\ call.op = "voucher.validate"
                => ReasonsOf("Voucher only valid for categories: {names}") = 1

(***************************************************************************)
(* C14.  A voucher with a minimum customer tier T gives the tier reason    *)
(* exactly to the customers whose rank is below T in the order new <       *)
(* silver < gold < platinum; a customer at rank T or above never receives  *)
(* it, and a voucher without a minimum tier gives it to nobody.            *)
(***************************************************************************)
C14_TierReasonExactlyBelowRank ==
    (call.op = "voucher.validate" /\ KnownCode)
        => LET required == CalledVoucher.min_customer_tier
               tier_reason ==
                   Reason("Voucher requires {a} membership (current: {b})",
                          IF required = None THEN "" ELSE required[1],
                          call.customer.tier, 0, 0, {})
               reported == \E i \in DOMAIN result.errors : result.errors[i] = tier_reason
               tier_reasons == ReasonsOf("Voucher requires {a} membership (current: {b})")
           IN  IF required # None /\ Rank(call.customer.tier) < Rank(required[1])
               THEN reported /\ tier_reasons = 1 /\ ~result.is_valid
               ELSE tier_reasons = 0

\* a gold customer is refused a platinum voucher for the tier alone
C14_Witness ==
    /\ call.op = "voucher.validate"
    /\ call.voucher_code = Some("PLAT30") /\ call.vouchers = "TEST_VOUCHERS"
    /\ call.customer = GOLD_CUSTOMER
    /\ call.cart_items # <<>>
    /\ result.errors = <<Reason("Voucher requires {a} membership (current: {b})",
                                "platinum", "gold", 0, 0, {})>>

(***************************************************************************)
(* C15.  For a voucher code absent from the rule table, calculate returns  *)
(* 0 and validate returns an invalid verdict with a non-empty reason list; *)
(* for a known code calculate returns round2(sum of current_price x        *)
(* quantity x pct / 100), whether or not the cart and customer are         *)
(* eligible.                                                               *)
(***************************************************************************)
C15_UnknownCodeAndKnownAmount ==
    /\ (call.op = "voucher.calculate" /\ ~KnownCode) => result.amount = 0
    /\ (call.op = "voucher.validate" /\ ~KnownCode)
          => ~result.is_valid /\ result.errors # <<>>
    /\ (call.op = "voucher.calculate" /\ KnownCode)
          => result.amount
               = Quantize(Subtotal * CalledVoucher.discount_percentage, 100)

\* GOLD50 computed for a cart below its minimum, of an excluded brand, and a
\* customer below its tier: half the discounted PUMA T-shirt's 600.00
C15_Witness ==
    /\ call.op = "voucher.calculate"
    /\ call.voucher_code = Some("GOLD50") /\ call.vouchers = "VOUCHERS"
    /\ Len(call.cart_items) = 1
    /\ call.cart_items[1].product.brand = "PUMA"
    /\ call.cart_items[1].product.current_price = 60000
    /\ call.cart_items[1].quantity = 1
    /\ Len(Voucher_validate(VOUCHERS, call.cart_items, call.customer,
                            call.voucher_code).errors) = 3
    /\ result.amount = 30000

(***************************************************************************)
(* Vocabulary of the bank offer claims, on the inputs of a call made on    *)
(* the bank strategy.                                                      *)
(***************************************************************************)
\* the payment names a configured bank
OfferKnown == BankOf(call.payment_info) \in DOMAIN BANK_OFFERS

\* the offer requires a card type and the payment's is another
CardTypeFails ==
    /\ OfferKnown
    /\ BANK_OFFERS[BankOf(call.payment_info)].card_type # None
    /\ BANK_OFFERS[BankOf(call.payment_info)].card_type
          # call.payment_info[1].card_type

\* the offer has a minimum transaction value and the cart total is below it
MinimumFails ==
    /\ OfferKnown
    /\ Subtotal < OfferMinimum(call.payment_info)

(***************************************************************************)
(* C16.  BankOfferStrategy.validate mirrors calculate: for a context whose *)
(* verdict is invalid (unknown bank, card-type mismatch, cart total below  *)
(* the minimum) calculate returns 0; a card-type mismatch gives amount 0   *)
(* and a reason naming the required card type; when both the card type and *)
(* the minimum fail, both reasons are reported.                            *)
(***************************************************************************)
C16_BankValidateMirrorsCalculate ==
    /\ (call.op = "bank.validate" /\ ~result.is_valid)
          => /\ Bank_calculate(bank_strategy, call.cart_items, call.payment_info) = 0
             /\ \/ BankOf(call.payment_info) \notin DOMAIN BANK_OFFERS \cup {""}
                \/ CardTypeFails
                \/ MinimumFails
    /\ (call.op = "bank.calculate"
          /\ ~Bank_validate(bank_strategy, call.cart_items, call.payment_info).is_valid)
          => result.amount = 0
    /\ (call.op = "bank.calculate" /\ CardTypeFails) => result.amount = 0
    /\ (call.op = "bank.validate" /\ CardTypeFails)
          => /\ ~result.is_valid
             /\ \E i \in DOMAIN result.errors :
                   /\ result.errors[i].kind
                        = "{a} offer requires {b} card (provided: {names})"
                   /\ Some(result.errors[i].b)
                        = BANK_OFFERS[BankOf(call.payment_info)].card_type
    /\ (call.op = "bank.validate" /\ CardTypeFails /\ MinimumFails)
          => /\ Len(result.errors) = 2
             /\ ReasonsOf("{a} offer requires {b} card (provided: {names})") = 1
             /\ ReasonsOf("Minimum transaction value of Rs{x} not met (current: Rs{y})") = 1

\* an HDFC debit card on a cart below Rs500: both reasons in one verdict
C16_Witness ==
    /\ call.op = "bank.validate"
    /\ call.payment_info = Some(HDFC_DEBIT_PAYMENT)
    /\ call.cart_items # <<>>
    /\ Subtotal > 0 /\ Subtotal < 50000
    /\ ~result.is_valid
    /\ Len(result.errors) = 2
    /\ result.errors[1].b = "CREDIT"
    /\ result.errors[2].x = 50000 /\ result.errors[2].y = Subtotal

\* the call carries no payment info, or payment info without a bank name
NoBankNamed ==
    call.payment_info = None \/ call.payment_info[1].bank_name = None

\* the message mentions the bank offer: applied, or refused
BankApplyNote ==
    \E i \in DOMAIN result.price.message :
        result.price.message[i].kind = "Bank offer applied: Rs{x}"

BankFailureNote == InMessage(Text("Bank offer validation failed: "))

(***************************************************************************)
(* C17.  When payment info is absent, or present without a bank name, no   *)
(* bank offer applies and this is not an error: the bank verdict is valid  *)
(* with no reasons, the bank amount is 0, no bank entry is recorded and no *)
(* bank note is added to the message.  A bank failure note appears only    *)
(* when a bank name is present and the validation of the working cart      *)
(* produced reasons.                                                       *)
(***************************************************************************)
C17_NoBankNameIsNotAnError ==
    /\ (call.op = "bank.validate" /\ NoBankNamed)
          => result.is_valid /\ result.errors = <<>>
    /\ (call.op = "bank.calculate" /\ NoBankNamed) => result.amount = 0
    /\ (Returned /\ NoBankNamed)
          => ~HasEntry("Bank Offer") /\ ~BankApplyNote /\ ~BankFailureNote
    /\ (Returned /\ BankFailureNote)
          => /\ call.allow_discount_stacking
             /\ ~NoBankNamed
             /\ \/ BankOf(call.payment_info) \notin DOMAIN BANK_OFFERS
                \/ ~OfferMatches(call.payment_info)
                \/ cart_total(PostItems(call.cart_items))
                     < OfferMinimum(call.payment_info)

\* a UPI payment on a discounted cart: entries of other kinds, none of the bank
C17_Witness ==
    /\ Stacked
    /\ call.payment_info = Some(UPI_PAYMENT)
    /\ HasEntry("Brand Discount")
    /\ ~HasEntry("Bank Offer")
    /\ ~BankFailureNote
    /\ result.price.final_price < result.price.original_price

\* the first call of a validate_discount_code state, recomputed, and the call
\* that follows it on what the first left behind
FirstValidation ==
    validate_discount_code_of(VoucherTables[call.vouchers], call.voucher_code,
                              CallerRef(call.cart_items), call.customer)

SecondValidation ==
    validate_discount_code_of(FirstValidation.vouchers, call.voucher_code,
                              FirstValidation.caller, call.customer)

(***************************************************************************)
(* C18.  validate_discount_code is idempotent: a second call with the same *)
(* code, cart and customer gives the verdict of the first, and a call      *)
(* changes neither the cart nor the voucher rule table.                    *)
(***************************************************************************)
C18_ValidateIdempotent ==
    call.op = "validate"
        => /\ FirstValidation.is_valid = result.is_valid
           /\ SecondValidation.is_valid = result.is_valid
           /\ cart = call.cart_items
           /\ SecondValidation.caller.items = call.cart_items
           /\ FirstValidation.vouchers = VoucherTables[call.vouchers]
           /\ SecondValidation.vouchers = VoucherTables[call.vouchers]

\* an accepted code stays accepted: a known code of either table validated
\* for a non-empty cart
C18_Witness ==
    /\ call.op = "validate"
    /\ KnownCode
    /\ result.is_valid
    /\ SecondValidation.is_valid
    /\ Len(cart) = 2
    /\ cart = call.cart_items

\* final_price of the best-discount service for the inputs of the call; both
\* services raise on the same carts, so it is defined wherever Stacked holds
BestFinalPrice ==
    calculate_cart_discounts(FALSE, CallerRef(call.cart_items), call.customer,
                             call.payment_info, call.voucher_code).price.final_price

(***************************************************************************)
(* C19.  As claimed: for the same cart, customer, payment info and voucher *)
(* code, the final_price of the stacking mode is never higher than the     *)
(* final_price of the best-discount mode.                                  *)
(***************************************************************************)
C19_StackingAtMostBest ==
    Stacked => result.price.final_price <= BestFinalPrice

\* a second evaluation of the call's inputs, on the cart the first left behind
SecondEvaluation ==
    calculate_cart_discounts(call.allow_discount_stacking, CallerRef(cart),
                             call.customer, call.payment_info, call.voucher_code)

(***************************************************************************)
(* C20.  As claimed: calculate_cart_discounts is a deterministic function  *)
(* of cart, customer, payment info, voucher code and the mode: two         *)
(* evaluations with equal inputs return equal original_price, final_price, *)
(* breakdown and message, whichever process evaluates them.                *)
(***************************************************************************)
C20_Deterministic ==
    Returned
        => /\ SecondEvaluation.raised = ""
           /\ SecondEvaluation.price.original_price = result.price.original_price
           /\ SecondEvaluation.price.final_price = result.price.final_price
           /\ SecondEvaluation.price.applied_discounts
                = result.price.applied_discounts
           /\ \A first \in message_texts(result.price.message),
                 second \in message_texts(SecondEvaluation.price.message) :
                   first = second

(***************************************************************************)
(* Vocabulary of the rule claims, on a direct call of a rule: the items    *)
(* the call was made on are call.cart_items, the items it left are cart.   *)
(***************************************************************************)
\* round2(base_price x brand pct / 100) of the i-th item on entry
BrandItemDiscount(i) ==
    Quantize(call.cart_items[i].product.base_price
             * PctOf(BRAND_DISCOUNTS, call.cart_items[i].product.brand), 100)

\* round2(current_price x category pct / 100) of the i-th item on entry
CategoryItemDiscount(i) ==
    Quantize(call.cart_items[i].product.current_price
             * PctOf(CATEGORY_DISCOUNTS, call.cart_items[i].product.category), 100)

\* the items the call left are the items on entry with these current prices
LeftWithPrices(price) ==
    /\ Len(cart) = Len(call.cart_items)
    /\ \A i \in DOMAIN cart :
          cart[i] = [call.cart_items[i] EXCEPT !.product.current_price = price[i]]

(***************************************************************************)
(* C21.  The brand rule is always valid and, for each item whose brand has *)
(* a configured percentage, sets current_price = base_price -              *)
(* round2(base_price x pct / 100) and adds that item discount x quantity   *)
(* to the returned total; items of an unconfigured brand contribute 0 and  *)
(* keep their current_price.                                               *)
(***************************************************************************)
C21_BrandRule ==
    /\ call.op = "brand.validate" => result.is_valid /\ result.errors = <<>>
    /\ call.op = "brand"
         => /\ result.amount
                 = SumSeq([i \in DOMAIN call.cart_items |->
                             BrandItemDiscount(i) * call.cart_items[i].quantity])
            /\ LeftWithPrices(
                  [i \in DOMAIN call.cart_items |->
                     IF call.cart_items[i].product.brand \in DOMAIN BRAND_DISCOUNTS
                     THEN call.cart_items[i].product.base_price - BrandItemDiscount(i)
                     ELSE call.cart_items[i].product.current_price])

\* the brand rule on a cart the category rule had been applied to: the PUMA
\* T-shirt entering at 900.00 leaves at 600.00, the unbranded T-shirt
\* entering at 450.00 keeps 450.00, and the total is 400.00
C21_Witness ==
    /\ call.op = "brand"
    /\ Len(cart) = 2
    /\ call.cart_items[1].product.brand = "PUMA"
    /\ call.cart_items[1].product.current_price = 90000
    /\ call.cart_items[1].quantity = 1
    /\ cart[1].product.current_price = 60000
    /\ call.cart_items[2].product.brand = "LOCAL_BRAND"
    /\ call.cart_items[2].product.current_price = 45000
    /\ cart[2].product.current_price = 45000
    /\ result.amount = 40000

(***************************************************************************)
(* C22.  The category rule, for each item whose category has a configured  *)
(* percentage, takes the item discount round2(current_price x pct / 100)   *)
(* on the current_price the item holds on entry, lowers current_price by   *)
(* it, and returns the sum of item discount x quantity; items of an        *)
(* unconfigured category are untouched.                                    *)
(***************************************************************************)
C22_CategoryRule ==
    call.op = "category"
        => /\ result.amount
                = SumSeq([i \in DOMAIN call.cart_items |->
                            CategoryItemDiscount(i) * call.cart_items[i].quantity])
           /\ LeftWithPrices(
                 [i \in DOMAIN call.cart_items |->
                    IF call.cart_items[i].product.category
                         \in DOMAIN CATEGORY_DISCOUNTS
                    THEN call.cart_items[i].product.current_price
                           - CategoryItemDiscount(i)
                    ELSE call.cart_items[i].product.current_price])

\* the category rule after the brand rule: the PUMA T-shirt entering at
\* 600.00 leaves at 540.00, the jacket (no category percentage) keeps its
\* price, and the total is 60.00
C22_Witness ==
    /\ call.op = "category"
    /\ Len(cart) = 2
    /\ call.cart_items[1].product.id = "P001"
    /\ call.cart_items[1].product.current_price = 60000
    /\ call.cart_items[1].quantity = 1
    /\ cart[1].product.current_price = 54000
    /\ call.cart_items[2].product.category \notin DOMAIN CATEGORY_DISCOUNTS
    /\ cart[2] = call.cart_items[2]
    /\ result.amount = 6000

\* sum of base_price x quantity over the caller's cart, as the call received it
BaseTotal ==
    SumSeq([i \in DOMAIN call.cart_items |->
              call.cart_items[i].product.base_price * call.cart_items[i].quantity])

\* the caller's cart with every current_price put back to base_price
AtBasePrices(items) ==
    [i \in DOMAIN items |->
        [items[i] EXCEPT !.product.current_price = items[i].product.base_price]]

\* original_price the service of the given mode returns for the given inputs
OriginalPriceOf(stacking, items, payment_info, voucher_code) ==
    calculate_cart_discounts(stacking, CallerRef(items), call.customer,
                             payment_info, voucher_code).price.original_price

(***************************************************************************)
(* C23.  original_price equals the sum of base_price x quantity over the   *)
(* caller's cart, is the same in both modes, and does not depend on any    *)
(* item's current_price, on the voucher code, on the payment info or on    *)
(* which discounts were applied: the other mode returns the same           *)
(* original_price for the same cart with every current_price put back to   *)
(* the base price, no voucher code and no payment info.                    *)
(***************************************************************************)
C23_OriginalPriceIsBaseTotal ==
    Returned
        => /\ result.price.original_price = BaseTotal
           /\ OriginalPriceOf(~call.allow_discount_stacking,
                              AtBasePrices(call.cart_items), None, None)
                = result.price.original_price

\* a cart entering with a lowered current_price, priced with a voucher and a
\* bank entry: original_price is still the base total
C23_Witness ==
    /\ Returned
    /\ Len(call.cart_items) = 2
    /\ call.cart_items[1].product.current_price
         < call.cart_items[1].product.base_price
    /\ HasEntry("Voucher") /\ HasEntry("Bank Offer")
    /\ result.price.original_price
         = call.cart_items[1].product.base_price * call.cart_items[1].quantity
           + call.cart_items[2].product.base_price * call.cart_items[2].quantity
    /\ result.price.original_price > cart_total(call.cart_items)

\* a stacking call that supplied a code of the configured voucher table
StackedWithKnownCode ==
    /\ Stacked
    /\ TruthyStr(call.voucher_code)
    /\ call.voucher_code[1] \in DOMAIN VOUCHERS

\* subtotal of the working cart once the brand and category rules have run
PostSubtotal == cart_total(PostItems(call.cart_items))

\* the verdict of the voucher on the working cart after brand and category
PostVerdict ==
    Voucher_validate(VOUCHERS, PostItems(call.cart_items), call.customer,
                     call.voucher_code)

(***************************************************************************)
(* C24.  In stacking mode the voucher is validated after the brand and     *)
(* category rules have mutated the working cart: its minimum-cart-value    *)
(* check compares against the post-brand/category subtotal; a              *)
(* "Voucher (<code>)" entry appears in the breakdown only if that verdict  *)
(* was valid, and its amount is round2(post-brand/category subtotal x pct  *)
(* / 100).                                                                 *)
(***************************************************************************)
C24_VoucherAfterBrandAndCategory ==
    /\ (Stacked /\ HasEntry("Voucher"))
          => /\ StackedWithKnownCode
             /\ PostVerdict.is_valid
             /\ VOUCHERS[call.voucher_code[1]].min_cart_value # None
                   => PostSubtotal >= VOUCHERS[call.voucher_code[1]].min_cart_value[1]
             /\ Entry("Voucher", call.voucher_code[1])
                  = Quantize(PostSubtotal
                             * VOUCHERS[call.voucher_code[1]].discount_percentage, 100)
             /\ Cardinality({i \in DOMAIN result.price.applied_discounts :
                    result.price.applied_discounts[i].name.kind = "Voucher"}) = 1
    /\ (/\ StackedWithKnownCode
        /\ VOUCHERS[call.voucher_code[1]].min_cart_value # None
        /\ PostSubtotal < VOUCHERS[call.voucher_code[1]].min_cart_value[1])
          => /\ ~HasEntry("Voucher")
             /\ InMessage(Reason("Minimum cart value of Rs{x} not met (current: Rs{y})",
                                 "", "",
                                 VOUCHERS[call.voucher_code[1]].min_cart_value[1],
                                 PostSubtotal, {}))
    /\ (StackedWithKnownCode /\ PostVerdict.is_valid /\ PostSubtotal > 0)
          => HasEntry("Voucher")

\* NEWUSER20 (minimum 500.00) on one 500.00 T-shirt: the cart meets the
\* minimum as it enters, the category rule brings it to 450.00, and the
\* voucher is refused on 450.00
C24_Witness ==
    /\ StackedWithKnownCode
    /\ call.voucher_code = Some("NEWUSER20")
    /\ cart_total(call.cart_items) = 50000
    /\ PostSubtotal = 45000
    /\ Voucher_validate(VOUCHERS, call.cart_items, call.customer,
                        call.voucher_code).is_valid
    /\ ~HasEntry("Voucher")
    /\ HasEntry("Category Discount")

\* every item is priced at or below its base price
AtMostBase(items) ==
    \A i \in DOMAIN items : items[i].product.current_price <= items[i].product.base_price

\* the working cart of the stacking pipeline after its brand step
AfterBrand(items) == Brand_calculate(brand_strategy, items).cart_items

\* the working cart of the best-discount mode's category candidate
AfterCategoryAlone(items) == Category_calculate(category_strategy, items).cart_items

(***************************************************************************)
(* C25.  Within a pipeline run every working-cart item has current_price   *)
(* <= base_price after each rule step: after the brand step and after the  *)
(* category step of the stacking pipeline, and after the brand rule and    *)
(* after the category rule in their isolated candidate evaluations of the  *)
(* best-discount mode; a rule called directly leaves the caller's cart so  *)
(* too.                                                                    *)
(***************************************************************************)
C25_CurrentAtMostBase ==
    /\ Stacked => /\ AtMostBase(AfterBrand(call.cart_items))
                  /\ AtMostBase(PostItems(call.cart_items))
    /\ Best => /\ AtMostBase(AfterBrand(call.cart_items))
               /\ AtMostBase(AfterCategoryAlone(call.cart_items))
    /\ call.op \in {"brand", "category"} => AtMostBase(cart)

\* the best-discount mode on a cart that entered with a lowered price: both
\* candidate copies hold an item strictly below its base price
C25_Witness ==
    /\ Best
    /\ Len(call.cart_items) = 2
    /\ ~Fresh(call.cart_items)
    /\ \E i \in DOMAIN call.cart_items :
          AfterBrand(call.cart_items)[i].product.current_price
            < call.cart_items[i].product.current_price
    /\ \E i \in DOMAIN call.cart_items :
          AfterCategoryAlone(call.cart_items)[i].product.current_price
            < call.cart_items[i].product.current_price
    /\ HasEntry("Brand Discount") \/ HasEntry("Category Discount")

\* n / d in hundredths rounded half-up: a quotient ending exactly in 5 at the
\* third decimal goes up (prices and quantities of the rules are as given)
HalfUp(n, d) ==
    IF n >= 0 THEN (2 * n + d) \div (2 * d) ELSE -((2 * (-n) + d) \div (2 * d))

(***************************************************************************)
(* C26.  As claimed: the per-item discounts of the brand and category      *)
(* rules, and the voucher and bank amounts, are rounded to 2 decimal       *)
(* places half-up, per item before multiplying by quantity and summing.    *)
(***************************************************************************)
C26_HalfUpRounding ==
    /\ call.op = "brand"
         => result.amount
              = SumSeq([i \in DOMAIN call.cart_items |->
                   HalfUp(call.cart_items[i].product.base_price
                          * PctOf(BRAND_DISCOUNTS, call.cart_items[i].product.brand),
                          100)
                   * call.cart_items[i].quantity])
    /\ call.op = "category"
         => result.amount
              = SumSeq([i \in DOMAIN call.cart_items |->
                   HalfUp(call.cart_items[i].product.current_price
                          * PctOf(CATEGORY_DISCOUNTS,
                                  call.cart_items[i].product.category), 100)
                   * call.cart_items[i].quantity])
    /\ (call.op = "voucher.calculate" /\ KnownCode)
         => result.amount = HalfUp(Subtotal * CalledVoucher.discount_percentage, 100)
    /\ (call.op = "bank.calculate" /\ OfferKnown /\ ~CardTypeFails /\ ~MinimumFails)
         => result.amount
              = HalfUp(Subtotal
                       * BANK_OFFERS[BankOf(call.payment_info)].discount_percentage,
                       100)

\* the place of a rule in the pipeline, by its breakdown key
EntryRank(kind) ==
    CASE kind = "Brand Discount" -> 1
      [] kind = "Category Discount" -> 2
      [] kind = "Voucher" -> 3
      [] kind = "Bank Offer" -> 4
      [] OTHER -> 0

\* the place of a rule by the opening of its note; 0 for every other token
NoteRank(kind) ==
    CASE kind = "Brand discount: Rs{x}" -> 1
      [] kind = "Category discount: Rs{x}" -> 2
      [] kind \in {"Voucher '{a}' applied: Rs{x}", "Voucher validation failed: "} -> 3
      [] kind \in {"Bank offer applied: Rs{x}", "Bank offer validation failed: "} -> 4
      [] OTHER -> 0

\* positions of the message where a note opens
NoteStarts == {i \in DOMAIN result.price.message :
                  NoteRank(result.price.message[i].kind) > 0}

\* positions of the message holding the separator of the notes
Separators == {i \in DOMAIN result.price.message :
                  result.price.message[i] = Text(" | ")}

\* the note announcing an applied amount, for a breakdown key
AppliedNote(name, amount) ==
    CASE name.kind = "Brand Discount" ->
            Reason("Brand discount: Rs{x}", "", "", amount, 0, {})
      [] name.kind = "Category Discount" ->
            Reason("Category discount: Rs{x}", "", "", amount, 0, {})
      [] name.kind = "Voucher" ->
            Reason("Voucher '{a}' applied: Rs{x}", name.arg, "", amount, 0, {})
      [] OTHER -> Reason("Bank offer applied: Rs{x}", "", "", amount, 0, {})

(***************************************************************************)
(* C27.  In stacking mode the breakdown entries and the message notes      *)
(* appear in the order brand, category, voucher, bank; only strictly       *)
(* positive amounts are recorded; the message is the notes joined by       *)
(* " | ", and it is "No discounts applied" exactly when no note was        *)
(* recorded, so that an empty breakdown with a failed voucher or bank      *)
(* validation carries the failure note instead.                            *)
(***************************************************************************)
C27_OrderedBreakdownAndMessage ==
    Stacked
        => LET applied == result.price.applied_discounts
               message == result.price.message
           IN  /\ \A i, j \in DOMAIN applied :
                     i < j => /\ EntryRank(applied[i].name.kind) > 0
                              /\ EntryRank(applied[i].name.kind)
                                   < EntryRank(applied[j].name.kind)
               /\ \A i \in DOMAIN applied :
                     /\ applied[i].amount > 0
                     /\ InMessage(AppliedNote(applied[i].name, applied[i].amount))
               /\ \A i, j \in NoteStarts :
                     i < j => NoteRank(message[i].kind) < NoteRank(message[j].kind)
               /\ NoteStarts # {}
                     => /\ 1 \in NoteStarts
                        /\ Cardinality(Separators) = Cardinality(NoteStarts) - 1
                        /\ \A i \in Separators : i + 1 \in NoteStarts
               /\ (message = <<Text("No discounts applied")>>) <=> (NoteStarts = {})
               /\ (TruthyStr(call.voucher_code) /\ ~PostVerdict.is_valid)
                     => InMessage(Text("Voucher validation failed: "))
               /\ BankFailureNote
                     <=> (call.payment_info # None
                          /\ ~Bank_validate(BANK_OFFERS, PostItems(call.cart_items),
                                            call.payment_info).is_valid)

\* the jacket (no brand or category percentage) with an unknown code and an
\* HDFC debit card: the breakdown is empty and the message is the two
\* failure notes, voucher before bank
C27_Witness ==
    /\ Stacked
    /\ call.cart_items = get_no_discount_cart
    /\ call.voucher_code = Some("INVALID123")
    /\ call.payment_info = Some(HDFC_DEBIT_PAYMENT)
    /\ result.price.applied_discounts = <<>>
    /\ Cardinality(NoteStarts) = 2
    /\ Cardinality(Separators) = 1
    /\ result.price.message[1] = Text("Voucher validation failed: ")
    /\ BankFailureNote
    /\ ~InMessage(Text("No discounts applied"))

\* The amount the rule of the given place offers in the best-discount mode,
\* each taken on the cart as the call received it; 0 when the rule is not
\* applicable or its verdict is invalid.
CandidateAmount(rank) ==
    CASE rank = 1 -> Brand_calculate(BRAND_DISCOUNTS, call.cart_items).amount
      [] rank = 2 -> Category_calculate(CATEGORY_DISCOUNTS, call.cart_items).amount
      [] rank = 3 ->
            IF /\ TruthyStr(call.voucher_code)
               /\ Voucher_validate(VOUCHERS, call.cart_items, call.customer,
                                   call.voucher_code).is_valid
            THEN Voucher_calculate(VOUCHERS, call.cart_items, call.voucher_code)
            ELSE 0
      [] OTHER ->
            IF /\ call.payment_info # None
               /\ Bank_validate(BANK_OFFERS, call.cart_items, call.payment_info).is_valid
            THEN Bank_calculate(BANK_OFFERS, call.cart_items, call.payment_info)
            ELSE 0

\* the places whose positive candidate is the largest among `amounts`
TopRanksOf(amounts) ==
    {r \in 1..4 : amounts[r] > 0 /\ \A q \in 1..4 : amounts[q] <= amounts[r]}

\* the places whose positive candidate is the largest of the call
TopRanks ==
    TopRanksOf(<<CandidateAmount(1), CandidateAmount(2),
                 CandidateAmount(3), CandidateAmount(4)>>)

(***************************************************************************)
(* C28.  In best-discount mode, when two or more candidates share the      *)
(* maximum amount, the one chosen is the first in the evaluation order     *)
(* brand, category, voucher, bank.                                         *)
(***************************************************************************)
C28_FirstOfEqualMaxima ==
    Best
        => LET top == TopRanks
           IN  top # {}
                 => /\ Len(result.price.applied_discounts) = 1
                    /\ EntryRank(result.price.applied_discounts[1].name.kind) \in top
                    /\ \A r \in top :
                          EntryRank(result.price.applied_discounts[1].name.kind) <= r

\* one 500.00 T-shirt of no configured brand paid by ICICI card: category
\* 10% and bank 10% both offer 50.00, and the category entry is the one kept
C28_Witness ==
    /\ Best
    /\ Cardinality(TopRanks) >= 2
    /\ call.cart_items = <<CartItem(BUDGET_TSHIRT, 1, "M")>>
    /\ call.payment_info = Some(ICICI_CARD_PAYMENT)
    /\ CandidateAmount(2) = 5000 /\ CandidateAmount(4) = 5000
    /\ result.price.applied_discounts
         = <<[name |-> Label("Category Discount", ""), amount |-> 5000]>>

\* what the stacking pipeline returns for the code, cart and customer of a
\* validate_discount_code call, with no payment info
PricedWithCode ==
    calculate_stacked_discounts(CallerRef(call.cart_items), call.customer, None,
                                call.voucher_code).price

(***************************************************************************)
(* C29.  As claimed: validate_discount_code agrees with the pricing        *)
(* pipeline: for the same code, cart and customer it returns True if and   *)
(* only if the voucher step of the stacking pipeline finds the voucher     *)
(* valid, and so records the voucher discount when its amount is positive. *)
(***************************************************************************)
C29_ValidateAgreesWithPipeline ==
    (/\ call.op = "validate" /\ call.vouchers = "VOUCHERS"
     /\ TruthyStr(call.voucher_code)
     /\ call.cart_items # <<>>)
        => /\ result.is_valid
                <=> ~(\E i \in DOMAIN PricedWithCode.message :
                        PricedWithCode.message[i] = Text("Voucher validation failed: "))
           /\ (result.is_valid /\ PostSubtotal > 0)
                => \E i \in DOMAIN PricedWithCode.applied_discounts :
                      PricedWithCode.applied_discounts[i].name
                        = Label("Voucher", call.voucher_code[1])

\* one more application of the brand rule to the cart a call left
BrandAgain == Brand_calculate(brand_strategy, cart)

\* one more application of the category rule to the cart a call left
CategoryAgain == Category_calculate(category_strategy, cart)

(***************************************************************************)
(* C30.  The brand rule is idempotent on a working cart: it recomputes     *)
(* current_price from base_price, so applying it again to the cart it left *)
(* returns the same amount and leaves the same prices, and the             *)
(* current_price an item of a configured brand carried on entry does not   *)
(* matter.  The category rule compounds: applied again, it takes its       *)
(* percentage of the price it left and lowers that price once more.        *)
(***************************************************************************)
C30_BrandIdempotentCategoryCompounds ==
    /\ call.op = "brand"
         => /\ BrandAgain.amount = result.amount
            /\ BrandAgain.cart_items = cart
            /\ Brand_calculate(brand_strategy, AtBasePrices(call.cart_items)).amount
                 = result.amount
            /\ \A i \in DOMAIN cart :
                  cart[i].product.brand \in DOMAIN BRAND_DISCOUNTS
                    => cart[i].product.current_price
                         = cart[i].product.base_price - BrandItemDiscount(i)
    /\ call.op = "category"
         => \A i \in DOMAIN cart :
               cart[i].product.category \in DOMAIN CATEGORY_DISCOUNTS
                 => /\ CategoryAgain.cart_items[i].product.current_price
                         = cart[i].product.current_price
                           - Quantize(cart[i].product.current_price
                                      * CATEGORY_DISCOUNTS[cart[i].product.category],
                                      100)
                    /\ CategoryAgain.cart_items[i].product.current_price
                         < cart[i].product.current_price
                    /\ cart[i].product.current_price
                         < call.cart_items[i].product.current_price

\* the brand rule called a second time on the cart it had left: the PUMA
\* T-shirt stays at 600.00 and the amount is 400.00 again
C30_Witness ==
    /\ call.op = "brand"
    /\ direct = 2
    /\ call.cart_items = <<CartItem([PUMA_TSHIRT EXCEPT !.current_price = 60000], 1, "L")>>
    /\ cart = call.cart_items
    /\ result.amount = 40000

====
